---------------------------- MODULE Spec2Model ----------------------------
(***************************************************************************)
(* V850 architecture plugin: instruction decoder (decode_instruction),     *)
(* branch classifier (get_instruction_info) and semantic lifter            *)
(* (get_instruction_low_level_il) of src/__init__.py.                      *)
(*                                                                         *)
(* Python integers are unbounded; the values the plugin computes reach     *)
(* 2^32, which is beyond the integers of the model checker.  A Python      *)
(* value stored in a record slot or an IL constant is therefore kept as    *)
(*   <<>>        for None                                                  *)
(*   <<hi, lo>>  for the integer hi * 65536 + lo, 0 <= lo < 65536          *)
(* Inside the decoder the 16-bit words and their fields are plain          *)
(* integers.                                                               *)
(***************************************************************************)
EXTENDS Integers, Sequences, FiniteSets, TLC

VARIABLES data, addr, call, ret, il, ExtendedInstructions

vars == <<data, addr, call, ret, il, ExtendedInstructions>>

(***************************************************************************)
(* Python values                                                           *)
(***************************************************************************)
None == <<>>

PyInt(n) == <<n \div 65536, n % 65536>>

Val(v) == v[1] * 65536 + v[2]

\* a + b on Python integers
PyAdd(a, b) == <<a[1] + b[1] + ((a[2] + b[2]) \div 65536), (a[2] + b[2]) % 65536>>

\* a > 0 on a Python integer
PyPositive(a) == a[1] > 0 \/ (a[1] = 0 /\ a[2] > 0)

(***************************************************************************)
(* Bit operators of Python on integers (two's complement for negatives);   *)
(* the right operand of And is a non-negative mask.                        *)
(***************************************************************************)
RECURSIVE And(_, _)
And(a, b) == IF b = 0 THEN 0 ELSE (a % 2) * (b % 2) + 2 * And(a \div 2, b \div 2)

RECURSIVE Or(_, _)
Or(a, b) ==
    IF a = 0 THEN b
    ELSE IF b = 0 THEN a
    ELSE (IF a % 2 = 1 \/ b % 2 = 1 THEN 1 ELSE 0) + 2 * Or(a \div 2, b \div 2)

Shr(a, n) == a \div (2 ^ n)

Shl(a, n) == a * (2 ^ n)

\* x << 16 for a 16-bit word x, as a Python value
Shl16(x) == <<x, 0>>

\* w | lo for a Python value w and a 16-bit word lo
WOr(w, lo) == <<w[1], Or(w[2], lo)>>

\* the value taken as it is, the sign bit not subtracted
sign_extend_unsigned(value, bits) == value

sign_extend(value, bits) ==
    LET sign_bit == Shl(1, bits - 1)
    IN  And(value, sign_bit - 1) - And(value, sign_bit)

\* the value taken as it is, bit 31 not treated as a sign
sign_extend32_unsigned(value) == value

\* sign_extend(value, 32) on a Python value
sign_extend32(value) ==
    <<And(value[1], 32767) - And(value[1], 32768), value[2]>>

(***************************************************************************)
(* Registers and the exact-pattern tables                                  *)
(***************************************************************************)
Registers ==
    << "r0", "r1", "r2", "sp", "r4", "r5", "r6", "r7", "r8", "r9", "r10",
       "r11", "r12", "r13", "r14", "r15", "r16", "r17", "r18", "r19", "r20",
       "r21", "r22", "r23", "r24", "r25", "r26", "r27", "r28", "r29", "ep",
       "lp", "pc" >>

\* Registers[reg]
RegisterName(reg) == Registers[reg + 1]

\* Registers.index(name)
RegistersIndex(name) == (CHOOSE i \in 1..Len(Registers) : Registers[i] = name) - 1

\* the table without its last entry
NoRegisterInstructions_partial ==
    (\h0 :> "nop") @@ (\h1d :> "synce") @@ (\h1e :> "syncm") @@ (\h1f :> "syncp")

NoRegisterInstructions ==
    (\h0 :> "nop") @@ (\h1d :> "synce") @@ (\h1e :> "syncm") @@
    (\h1f :> "syncp") @@ (\h40 :> "rie")

ThirtyTwoBitNoRegisterInstructions ==
    (<<\h07e0, \h0120>> :> "halt") @@ (<<\h07e0, \h0140>> :> "reti") @@
    (<<\h07e0, \h0144>> :> "ctret") @@ (<<\h07e0, \h0148>> :> "eiret") @@
    (<<\h07e0, \h014a>> :> "feret") @@ (<<\h07e0, \h0160>> :> "di") @@
    (<<\h87e0, \h0160>> :> "ei")

LoadInstructions ==
    {"ld.b", "ld.bu", "ld.h", "ld.hu", "ld.w",
     "sld.b", "sld.bu", "sld.h", "sld.hu", "sld.w"}

StoreInstructions == {"st.b", "st.h", "st.w", "sst.b", "sst.h", "sst.w"}

(***************************************************************************)
(* Decoder results.  A call either returns a tuple or raises; exc names    *)
(* the exception ("none" when the call returns).                           *)
(***************************************************************************)
NoInstr == "None"

Tuple8(instr, length, src, dst, reg3, reg4, immed, cond) ==
    [exc |-> "none", instr |-> instr, length |-> length, src |-> src,
     dst |-> dst, reg3 |-> reg3, reg4 |-> reg4, immed |-> immed, cond |-> cond]

error_value == Tuple8(NoInstr, None, None, None, None, None, None, None)

Raise(e) == [error_value EXCEPT !.exc = e]

\* the 5-tuples (instr, size, src, dst, immed) of the two-word rules
Tuple5(instr, size, src, dst, immed) ==
    [exc |-> "none", instr |-> instr, size |-> size, src |-> src, dst |-> dst,
     immed |-> immed]

Raise5(e) == [Tuple5(NoInstr, None, None, None, None) EXCEPT !.exc = e]

\* struct.unpack('<H', data[a:a+2]) succeeds only on a 2-byte slice
CanUnpack(d, a) == Len(d) >= a + 2

\* the two bytes read high byte first
unpack_H_big(d, a) == 256 * d[a + 1] + d[a + 2]

unpack_H(d, a) == d[a + 1] + 256 * d[a + 2]

(***************************************************************************)
(* 16-bit rules                                                            *)
(***************************************************************************)
\* the lower half of the keys only
TypeOneRegRegKeys_low == (\h00..\h07) \ {\h03}

TypeOneRegRegKeys == (\h00..\h0f) \ {\h03}

TypeOneRegRegInstructions(opcode, reg1, reg2) ==
    LET T(i, s, d) == [instr |-> i, src |-> s, dst |-> d]
    IN  CASE opcode = \h00 -> T("mov", PyInt(reg1), PyInt(reg2))
          [] opcode = \h01 -> T("not", PyInt(reg1), PyInt(reg2))
          [] opcode = \h02 -> IF reg2 = 0 THEN T("switch", None, PyInt(reg1))
                              ELSE IF reg1 = 0 THEN T("fetrap", None, PyInt(And(reg2, \hf)))
                              ELSE T("divh", PyInt(reg1), PyInt(reg2))
          [] opcode = \h04 -> IF reg2 # 0 THEN T("satsubr", PyInt(reg1), PyInt(reg2))
                              ELSE T("zxb", None, PyInt(reg1))
          [] opcode = \h05 -> IF reg2 # 0 THEN T("satsub", PyInt(reg1), PyInt(reg2))
                              ELSE T("sxb", None, PyInt(reg1))
          [] opcode = \h06 -> IF reg2 # 0 THEN T("satadd", PyInt(reg1), PyInt(reg2))
                              ELSE T("zxh", None, PyInt(reg1))
          [] opcode = \h07 -> IF reg2 # 0 THEN T("mulh", PyInt(reg1), PyInt(reg2))
                              ELSE T("sxh", None, PyInt(reg1))
          [] opcode = \h08 -> T("or", PyInt(reg1), PyInt(reg2))
          [] opcode = \h09 -> T("xor", PyInt(reg1), PyInt(reg2))
          [] opcode = \h0a -> T("and", PyInt(reg1), PyInt(reg2))
          [] opcode = \h0b -> T("tst", PyInt(reg1), PyInt(reg2))
          [] opcode = \h0c -> T("subr", PyInt(reg1), PyInt(reg2))
          [] opcode = \h0d -> T("sub", PyInt(reg1), PyInt(reg2))
          [] opcode = \h0e -> T("add", PyInt(reg1), PyInt(reg2))
          [] opcode = \h0f -> T("cmp", PyInt(reg1), PyInt(reg2))

TypeOneImmediateRegKeys == {\h03} \cup (\h10..\h16)

TypeOneImmediateRegInstructions(opcode, reg1, reg2) ==
    LET T(i, m, d) == [instr |-> i, immed |-> m, dst |-> d]
    IN  CASE opcode = \h03 ->
                 IF reg2 = 0 THEN T("jmp", None, PyInt(reg1))
                 ELSE IF And(reg1, \h10) = \h10
                      THEN T("sld.hu", PyInt(Shl(And(reg1, \hf), 1)), PyInt(reg2))
                      ELSE T("sld.bu", PyInt(And(reg1, \hf)), PyInt(reg2))
          [] opcode = \h10 -> T("mov", PyInt(sign_extend(reg1, 5)), PyInt(reg2))
          [] opcode = \h11 -> T("satadd", PyInt(reg1), PyInt(reg2))
          [] opcode = \h12 -> T("add", PyInt(sign_extend(reg1, 5)), PyInt(reg2))
          [] opcode = \h13 -> T("cmp", PyInt(sign_extend(reg1, 5)), PyInt(reg2))
          [] opcode = \h14 -> IF reg1 = 0 THEN T("callt", PyInt(Shl(reg2, 1)), None)
                              ELSE T("shr", PyInt(reg1), PyInt(reg2))
          [] opcode = \h15 -> IF reg1 = 0 THEN T("callt", PyInt(Shl(Or(reg2, \h20), 1)), None)
                              ELSE T("sar", PyInt(reg1), PyInt(reg2))
          [] opcode = \h16 -> T("shl", PyInt(reg1), PyInt(reg2))

TypeFourShortLoadStoreInstructions(load_store_type, reg2, disp) ==
    LET T(i, s, d, m) == [instr |-> i, src |-> s, dst |-> d, immed |-> m]
    IN  CASE load_store_type = \h6 -> T("sld.b", None, PyInt(reg2), PyInt(disp))
          [] load_store_type = \h7 -> T("sst.b", PyInt(reg2), None, PyInt(disp))
          [] load_store_type = \h8 -> T("sld.h", None, PyInt(reg2), PyInt(Shl(disp, 1)))
          [] load_store_type = \h9 -> T("sst.h", PyInt(reg2), None, PyInt(Shl(disp, 1)))
          [] load_store_type = \ha ->
                 IF And(disp, \h1) = 0
                 THEN T("sld.w", None, PyInt(reg2), PyInt(Shl(disp, 1)))
                 ELSE T("sst.w", PyInt(reg2), None, PyInt(Shl(And(disp, \h7e), 1)))

\* the condition table with br and bsa in each other's place
BranchConditionCode_swapped ==
    << "bv", "bl", "be", "bnh",
       "bn", "bsa", "blt", "ble",
       "bnv", "bnl", "bne", "bh",
       "bp", "br", "bge", "bgt" >>

BranchConditionCode ==
    << "bv", "bl", "be", "bnh", "bn", "br", "blt", "ble",
       "bnv", "bnl", "bne", "bh", "bp", "bsa", "bge", "bgt" >>


(***************************************************************************)
(* Register list of prepare/dispose: field i of Register_List_Bits is bit  *)
(* i-1 of asWord (little-endian bit fields in a c_uint16).                 *)
(***************************************************************************)
\* the bit fields with r29 declared twice and r28 missing
Register_List_Bits_repeated ==
    << "r31", "r29", "r29", "r23", "r22", "r21", "r20", "r27", "r26", "r25",
       "r24", "r30" >>

Register_List_Bits ==
    << "r31", "r29", "r28", "r23", "r22", "r21", "r20", "r27", "r26", "r25",
       "r24", "r30" >>

\* Register_List().asWord = value (a c_uint16)
Register_List(value) == value % 65536

\* getattr(reg_list.bit, regname)
RegListBit(asWord, regname) ==
    LET i == CHOOSE k \in 1..Len(Register_List_Bits) : Register_List_Bits[k] = regname
    IN  And(Shr(asWord, i - 1), 1)

\* decode_dispose reporting the length of a one-word instruction
decode_dispose_short(i1, i2) ==
    LET immed == Shl(And(Shr(i1, 1), \h1f), 2)
        reg1 == And(i2, \h1f)
        reg_list == Register_List(Or(Shl(And(i1, \h1), 11), Shr(i2, 5)))
    IN  Tuple5("dispose", PyInt(2), IF reg1 # 0 THEN PyInt(reg1) ELSE None,
               PyInt(reg_list), PyInt(immed))

decode_dispose(i1, i2) ==
    LET immed == Shl(And(Shr(i1, 1), \h1f), 2)
        reg1 == And(i2, \h1f)
        reg_list == Register_List(Or(Shl(And(i1, \h1), 11), Shr(i2, 5)))
    IN  Tuple5("dispose", PyInt(4), IF reg1 # 0 THEN PyInt(reg1) ELSE None,
               PyInt(reg_list), PyInt(immed))

LongLoadStoreKeys == {\h05, \h07, \h09, \h0d, \h0f, \h25, \h27, \h2d}

LongLoadStoreInstructions(composite_opcode, reg1, reg3, disp23) ==
    LET L(i) == Tuple5(i, PyInt(6), PyInt(reg1), PyInt(reg3), PyInt(sign_extend(disp23, 23)))
        S(i) == Tuple5(i, PyInt(6), PyInt(reg3), PyInt(reg1), PyInt(sign_extend(disp23, 23)))
    IN  CASE composite_opcode = \h05 -> L("ld.b")
          [] composite_opcode = \h07 -> L("ld.h")
          [] composite_opcode = \h09 -> L("ld.w")
          [] composite_opcode = \h0d -> S("st.b")
          [] composite_opcode = \h0f -> S("st.w")
          [] composite_opcode = \h25 -> L("ld.bu")
          [] composite_opcode = \h27 -> L("ld.hu")
          [] composite_opcode = \h2d -> S("st.h")

decode_3c_and_3d(d) ==
    IF ~CanUnpack(d, 0) \/ ~CanUnpack(d, 2) THEN Raise5("struct.error")
    ELSE
    LET i1 == unpack_H(d, 0)
        i2 == unpack_H(d, 2)
        reg1 == And(i1, \h1f)
        reg2 == Shr(i1, 11)
        subop == And(i2, \h1f)
        immed == Shl(And(Shr(i1, 1), \h1f), 2)
        reg_list == Register_List(Or(Shl(And(i1, \h1), 11), Shr(i2, 5)))
    IN  IF And(i2, \h1) = 0 /\ reg2 # 0
        THEN Tuple5("jarl", PyInt(4), None, PyInt(reg2),
                    PyInt(sign_extend(Or(Shl(And(i1, \h3f), 16), i2), 22)))
        ELSE IF And(i2, \h1) = 0 /\ reg2 = 0
        THEN Tuple5("jr", PyInt(4), None, None,
                    PyInt(sign_extend(Or(Shl(And(i1, \h3f), 16), i2), 22)))
        ELSE IF reg2 # 0
        THEN LET low_bit == And(Shr(i1, 5), \h1)
             IN  Tuple5("ld.bu", PyInt(4), PyInt(reg1), PyInt(reg2),
                        PyInt(sign_extend(Or(And(i2, \hfffe), low_bit), 16)))
        ELSE IF subop = 1
        THEN Tuple5("prepare", PyInt(4), None, PyInt(reg_list), PyInt(immed))
        ELSE IF subop = 3
        THEN Tuple5("prepare", PyInt(4), PyInt(RegistersIndex("sp")), PyInt(reg_list),
                    PyInt(immed))
        ELSE IF ~CanUnpack(d, 4) THEN Raise5("struct.error")
        ELSE
        LET i3 == unpack_H(d, 4)
            composite_opcode == Or(And(i1, \h20), And(i2, \hf))
            reg3 == And(Shr(i2, 11), \h1f)
            disp23 == Or(And(Shr(i2, 4), \h7f), Shl(i3, 7))
        IN  IF subop = \hb \/ subop = \h13
            THEN Tuple5("prepare", PyInt(6),
                        IF subop = \hb THEN PyInt(sign_extend(i3, 16)) ELSE Shl16(i3),
                        PyInt(reg_list), PyInt(immed))
            ELSE IF subop = \h1b
            THEN IF ~CanUnpack(d, 6) THEN Raise5("struct.error")
                 ELSE Tuple5("prepare", PyInt(8), WOr(Shl16(unpack_H(d, 6)), i3),
                             PyInt(reg_list), PyInt(immed))
            ELSE IF composite_opcode \in LongLoadStoreKeys
            THEN LongLoadStoreInstructions(composite_opcode, reg1, reg3, disp23)
            ELSE Tuple5(NoInstr, None, None, None, None)

\* the table without its last rule
SimpleThirtyTwoBitKeys_short == \h30..\h3a

SimpleThirtyTwoBitKeys == \h30..\h3b

\* i3 is None when the window has fewer than 6 bytes: None << 16 is a TypeError
SimpleThirtyTwoBitInstructions(opcode, reg1, reg2, i1, i2, i3) ==
    LET R(i, m) == Tuple5(i, PyInt(4), PyInt(reg1), PyInt(reg2), m)
        W(i, m) == Tuple5(i, PyInt(4), PyInt(reg2), PyInt(reg1), m)
        Imm32(i) == IF i3 = None THEN Raise5("TypeError")
                    ELSE Tuple5(i, PyInt(6), None, PyInt(reg1), WOr(Shl16(Val(i3)), i2))
    IN  CASE opcode = \h30 -> R("addi", PyInt(sign_extend(i2, 16)))
          [] opcode = \h31 -> IF reg2 # 0 THEN R("movea", PyInt(sign_extend(i2, 16)))
                              ELSE Imm32("mov")
          [] opcode = \h32 -> IF reg2 # 0 THEN R("movhi", PyInt(i2))
                              ELSE decode_dispose(i1, i2)
          [] opcode = \h33 -> IF reg2 # 0 THEN R("satsubi", Shl16(i2))
                              ELSE decode_dispose(i1, i2)
          [] opcode = \h34 -> R("ori", PyInt(i2))
          [] opcode = \h35 -> R("xori", PyInt(i2))
          [] opcode = \h36 -> R("andi", PyInt(i2))
          [] opcode = \h37 -> IF reg2 # 0 THEN R("mulhi", PyInt(sign_extend(i2, 16)))
                              ELSE Imm32("jmp")
          [] opcode = \h38 -> R("ld.b", PyInt(sign_extend(i2, 16)))
          [] opcode = \h39 -> IF And(i2, \h1) = 0
                              THEN R("ld.h", PyInt(sign_extend(i2, 16)))
                              ELSE R("ld.w", PyInt(sign_extend(And(i2, \hfffe), 16)))
          [] opcode = \h3a -> W("st.b", PyInt(sign_extend(i2, 16)))
          [] opcode = \h3b -> IF And(i2, \h1) = 0
                              THEN W("st.h", PyInt(sign_extend(i2, 16)))
                              ELSE W("st.w", PyInt(sign_extend(And(i2, \hfffe), 16)))

BitManipulationInstructions(bitop, reg1, bitnum, disp) ==
    Tuple5(<<"set1", "not1", "clr1", "tst1">>[bitop + 1], PyInt(4), PyInt(reg1),
           PyInt(bitnum), PyInt(sign_extend(disp, 16)))


(***************************************************************************)
(* ExtendedInstructions: subop -> defaultdict(sub_subop -> lambda).  A     *)
(* lambda is named <<subop, key>> by the place it is written at; the       *)
(* lambda the default factory of a subop makes is <<subop, -1>>.  Looking  *)
(* up a missing key stores the factory's lambda under it: the tables are   *)
(* the module's mutable state.                                             *)
(***************************************************************************)
ExtendedInstructionsKeys ==
    (\h01 :> {0}) @@ (\h02 :> {0}) @@ (\h04 :> {0, 2}) @@ (\h05 :> {0, 2}) @@
    (\h06 :> {0, 2}) @@ (\h07 :> {\h0, \h2, \h4, \h6, \he}) @@ (\h0b :> {0}) @@
    (\h10 :> {0}) @@ (\h11 :> {0, 2}) @@
    (\h12 :> {\h0, \h4, \h8, \hc, \h10, \h14, \h18, \h1c,
              \h2, \h6, \ha, \he, \h12, \h16, \h1a, \h1e}) @@
    (\h13 :> {0, 2}) @@ (\h14 :> {0, 2}) @@ (\h16 :> {0, 2}) @@
    (\h17 :> {\h1c, \h1e}) @@ (\h18 :> {}) @@ (\h19 :> {}) @@
    (\h1a :> {0, 2, 4, 6}) @@ (\h1b :> {0, 2, 4, 6}) @@ (\h1c :> {\h1a}) @@
    (\h1d :> {\h1a}) @@ (\h1e :> {}) @@ (\h1f :> {})

ExtendedInstructionsInit ==
    [subop \in DOMAIN ExtendedInstructionsKeys |->
        [key \in ExtendedInstructionsKeys[subop] |-> <<subop, key>>]]

\* defaultdict.__getitem__: the value returned ...
ExtendedGet(table, subop, key) ==
    IF key \in DOMAIN table[subop] THEN table[subop][key] ELSE <<subop, -1>>

\* a table that stores the lambda of the factory of subop 0x18 under a
\* missing key, whatever the subop
ExtendedMissing_shared(table, subop, key) ==
    IF key \in DOMAIN table[subop] THEN table
    ELSE [table EXCEPT ![subop] = (key :> <<\h18, -1>>) @@ @]

\* ... and the table it leaves behind
ExtendedMissing(table, subop, key) ==
    IF key \in DOMAIN table[subop] THEN table
    ELSE [table EXCEPT ![subop] = (key :> <<subop, -1>>) @@ @]

\* the 8-tuple a lambda of the tables returns
ExtendedLambda(lambda, reg1, reg2, i1, i2) ==
    LET subop == lambda[1]
        key == lambda[2]
        r3 == PyInt(Shr(i2, 11))
        RR(i) == Tuple8(i, PyInt(4), PyInt(reg1), PyInt(reg2), None, None, None, None)
        RRR(i) == Tuple8(i, PyInt(4), PyInt(reg1), PyInt(reg2), r3, None, None, None)
        R23(i) == Tuple8(i, PyInt(4), PyInt(reg2), r3, None, None, None, None)
        imm9 == PyInt(sign_extend(Or(reg1, Shl(And(i2, \h3f), 3)), 9))
        immu == PyInt(Or(reg1, Shl(And(i2, \h3d), 3)))
        none8 == Tuple8(NoInstr, None, None, None, None, None, None, None)
    IN  CASE subop = \h01 /\ key = 0 -> RR("ldsr")
          [] subop = \h02 /\ key = 0 -> RR("stsr")
          [] subop \in {\h04, \h05, \h06} /\ key \in {0, 2} ->
                 LET i == (\h04 :> "shr" @@ \h05 :> "sar" @@ \h06 :> "shl")[subop]
                 IN  IF key = 0 THEN RR(i) ELSE RRR(i)
          [] subop = \h07 /\ key \in {0, 2, 4, 6} ->
                 RR((0 :> "set1" @@ 2 :> "not1" @@ 4 :> "clr1" @@ 6 :> "tst1")[key])
          [] subop = \h07 /\ key = \he -> RRR("caxi")
          [] subop = \h0b /\ key = 0 ->
                 Tuple8("syscall", PyInt(4), None, None, None, None,
                        PyInt(Or(And(Shr(i2, 11), \h7), And(i1, \h1f))), None)
          [] subop = \h10 /\ key = 0 ->
                 Tuple8("sasf", PyInt(4), None, PyInt(reg2), None, None, None,
                        PyInt(And(reg1, \hf)))
          [] subop = \h11 /\ key = 0 -> RRR("mul")
          [] subop = \h11 /\ key = 2 -> RRR("mulu")
          [] subop = \h12 /\ key \in {\h0, \h4, \h8, \hc, \h10, \h14, \h18, \h1c} ->
                 Tuple8("mul", PyInt(4), None, PyInt(reg2), r3, None, imm9, None)
          [] subop = \h12 /\ key \in {\h2, \h6, \ha, \he, \h12, \h16, \h1a, \h1e} ->
                 Tuple8("mulu", PyInt(4), None, PyInt(reg2), r3, None, immu, None)
          [] subop = \h13 /\ key = 0 ->
                 Tuple8("mul", PyInt(4), PyInt(reg2), r3, None, None, imm9, None)
          [] subop = \h13 /\ key = 2 ->
                 Tuple8("mulu", PyInt(4), PyInt(reg2), r3, None, None, immu, None)
          [] subop = \h14 /\ key = 0 -> RRR("divh")
          [] subop = \h14 /\ key = 2 -> RRR("divhu")
          [] subop = \h16 /\ key = 0 -> RRR("div")
          [] subop = \h16 /\ key = 2 -> RRR("divu")
          [] subop = \h17 /\ key = \h1c -> RRR("divq")
          [] subop = \h17 /\ key = \h1e -> RRR("divqu")
          [] subop = \h18 /\ key = -1 ->
                 Tuple8("cmov", PyInt(4), PyInt(reg2), r3, None, None, PyInt(reg1),
                        PyInt(sign_extend(And(Shr(i2, 1), \hf), 5)))
          [] subop = \h19 /\ key = -1 ->
                 Tuple8("cmov", PyInt(4), PyInt(reg2), r3, PyInt(reg1), None, PyInt(reg1),
                        None)
          [] subop = \h1a /\ key \in {0, 2, 4, 6} ->
                 R23((0 :> "bsw" @@ 2 :> "bsh" @@ 4 :> "hsw" @@ 6 :> "hsh")[key])
          [] subop = \h1b /\ key \in {0, 2, 4, 6} ->
                 R23((0 :> "sch0r" @@ 2 :> "sch1r" @@ 4 :> "sch0l" @@ 6 :> "sch1l")[key])
          [] subop = \h1c /\ key = \h1a -> RRR("satsub")
          [] subop = \h1d /\ key = \h1a -> RRR("satadd")
          [] subop \in {\h1c, \h1d} /\ key = -1 ->
                 Tuple8(IF subop = \h1c THEN "sbf" ELSE "adf", PyInt(4), PyInt(reg1),
                        PyInt(reg2), r3, None, PyInt(reg1), PyInt(And(Shr(i2, 1), \hf)))
          [] subop \in {\h1e, \h1f} /\ key = -1 ->
                 Tuple8(IF subop = \h1e THEN "mac" ELSE "macu", PyInt(4), PyInt(reg1),
                        PyInt(reg2), r3, PyInt(And(i2, \h1f)), None, None)
          [] OTHER -> none8

(***************************************************************************)
(* V850.decode_instruction                                                 *)
(***************************************************************************)
From5(t) ==
    [exc |-> t.exc, instr |-> t.instr, length |-> t.size, src |-> t.src,
     dst |-> t.dst, reg3 |-> None, reg4 |-> None, immed |-> t.immed, cond |-> None]

\* opcode 0x17 with the displacement words in the other order: the second
\* word as the high half
decode_17_swapped(d, reg1, reg2) ==
    IF reg1 = 0 /\ reg2 = 0
    THEN IF ~CanUnpack(d, 4) \/ ~CanUnpack(d, 2) THEN Raise("struct.error")
         ELSE Tuple8("jr", PyInt(6), None, None, None, None,
                     WOr(Shl16(unpack_H(d, 2)), unpack_H(d, 4)), None)
    ELSE IF reg2 = 0
    THEN IF ~CanUnpack(d, 4) \/ ~CanUnpack(d, 2) THEN Raise("struct.error")
         ELSE Tuple8("jarl", PyInt(6), None, PyInt(reg1), None, None,
                     sign_extend32(WOr(Shl16(unpack_H(d, 2)), unpack_H(d, 4))), None)
    ELSE Tuple8("mulh", PyInt(2), None, PyInt(reg2), None, None,
                PyInt(sign_extend(reg1, 5)), None)

\* opcode 0x17: mulh, jr, jarl
decode_17(d, reg1, reg2) ==
    IF reg1 = 0 /\ reg2 = 0
    THEN IF ~CanUnpack(d, 4) \/ ~CanUnpack(d, 2) THEN Raise("struct.error")
         ELSE Tuple8("jr", PyInt(6), None, None, None, None,
                     WOr(Shl16(unpack_H(d, 4)), unpack_H(d, 2)), None)
    ELSE IF reg2 = 0
    THEN IF ~CanUnpack(d, 4) \/ ~CanUnpack(d, 2) THEN Raise("struct.error")
         ELSE Tuple8("jarl", PyInt(6), None, PyInt(reg1), None, None,
                     sign_extend32(WOr(Shl16(unpack_H(d, 4)), unpack_H(d, 2))), None)
    ELSE Tuple8("mulh", PyInt(2), None, PyInt(reg2), None, None,
                PyInt(sign_extend(reg1, 5)), None)

\* the rules that read the second word (from line 543 on)
decode_two_word(table, d, instruction, opcode, reg1, reg2) ==
    IF ~CanUnpack(d, 2) THEN Raise("struct.error")
    ELSE
    LET instruction2 == unpack_H(d, 2)
        instruction_word == WOr(Shl16(instruction), instruction2)
        subop == And(Shr(instruction2, 5), \h3f)
        sub_subop == And(instruction2, \h1f)
    IN  IF instruction_word \in DOMAIN ThirtyTwoBitNoRegisterInstructions
        THEN Tuple8(ThirtyTwoBitNoRegisterInstructions[instruction_word], PyInt(4),
                    None, None, None, None, None, None)
        ELSE IF opcode \in SimpleThirtyTwoBitKeys
        THEN LET instruction3 == IF Len(d) >= 6 THEN PyInt(unpack_H(d, 4)) ELSE None
             IN  From5(SimpleThirtyTwoBitInstructions(opcode, reg1, reg2, instruction,
                                                      instruction2, instruction3))
        ELSE IF opcode = \h3c \/ opcode = \h3d
        THEN From5(decode_3c_and_3d(d))
        ELSE IF opcode = \h3e
        THEN LET bitop == Shr(instruction, 14)
                 bitnum == And(Shr(instruction, 11), \h7)
             IN  From5(BitManipulationInstructions(bitop, reg1, bitnum, instruction2))
        ELSE IF opcode = \h3f /\ And(instruction2, \h1) = \h1
        THEN Tuple8("ld.hu", PyInt(4), PyInt(reg1), PyInt(reg2), None, None,
                    PyInt(sign_extend(And(instruction2, \hfffe), 16)), None)
        ELSE IF opcode = \h3f /\ instruction2 = 0
        THEN IF And(reg1, \h10) = 0
             THEN Tuple8("setf", PyInt(4), PyInt(reg1), PyInt(reg2), None, None, None, None)
             ELSE Tuple8("rie", PyInt(4), PyInt(reg2), PyInt(And(reg1, \hf)), None, None,
                         None, None)
        ELSE IF opcode = \h3f /\ subop \in DOMAIN table
        THEN ExtendedLambda(ExtendedGet(table, subop, sub_subop), reg1, reg2,
                            instruction, instruction2)
        ELSE error_value

decode(table, d, a) ==
    IF Len(d) < 2 THEN error_value
    ELSE
    LET instruction == unpack_H(d, 0)
        opcode == And(Shr(instruction, 5), \h3f)
        reg1 == And(instruction, \h1f)
        reg2 == And(Shr(instruction, 11), \h1f)
    IN  IF instruction \in DOMAIN NoRegisterInstructions
        THEN Tuple8(NoRegisterInstructions[instruction], PyInt(2), None, None, None,
                    None, None, None)
        ELSE IF opcode \in TypeOneRegRegKeys
        THEN LET t == TypeOneRegRegInstructions(opcode, reg1, reg2)
             IN  Tuple8(t.instr, PyInt(2), t.src, t.dst, None, None, None, None)
        ELSE IF opcode \in TypeOneImmediateRegKeys
        THEN LET t == TypeOneImmediateRegInstructions(opcode, reg1, reg2)
             IN  Tuple8(t.instr, PyInt(2), None, t.dst, None, None, t.immed, None)
        ELSE IF opcode = \h17
        THEN decode_17(d, reg1, reg2)
        ELSE IF opcode >= \h18 /\ opcode <= \h2b
        THEN LET disp == And(instruction, \h7f)
                 load_store_type == Shr(opcode, 2)
                 t == TypeFourShortLoadStoreInstructions(load_store_type, reg2, disp)
             IN  Tuple8(t.instr, PyInt(2), t.src, t.dst, None, None, t.immed, None)
        ELSE IF opcode >= \h2c /\ opcode <= \h2f
        THEN LET disp == Or(Shl(reg2, 3), And(Shr(instruction, 4), \h7))
             IN  Tuple8(BranchConditionCode[And(instruction, \hf) + 1], PyInt(2), None,
                        None, None, None, PyInt(sign_extend(Shl(disp, 1), 9)), None)
        ELSE decode_two_word(table, d, instruction, opcode, reg1, reg2)

\* the table after decode_instruction(data, addr): only the extended class
\* looks a key up
decode_table(table, d) ==
    IF Len(d) < 4 THEN table
    ELSE
    LET instruction == unpack_H(d, 0)
        instruction2 == unpack_H(d, 2)
        opcode == And(Shr(instruction, 5), \h3f)
        subop == And(Shr(instruction2, 5), \h3f)
    IN  IF /\ opcode = \h3f
           /\ WOr(Shl16(instruction), instruction2)
                  \notin DOMAIN ThirtyTwoBitNoRegisterInstructions
           /\ And(instruction2, \h1) # \h1
           /\ instruction2 # 0
           /\ subop \in DOMAIN table
        THEN ExtendedMissing(table, subop, And(instruction2, \h1f))
        ELSE table

decode_instruction(d, a) == decode(ExtendedInstructions, d, a)


(***************************************************************************)
(* The IL builder of the framework (il.reg, il.add, ...).  An expression   *)
(* is a tuple whose first element is the operation; flags is the           *)
(* flag-write type ("" for none).  An IL function is                       *)
(*   ops     the instructions appended, in order                           *)
(*   marks   the labels marked, in order, each with the index of the       *)
(*           instruction that follows it                                   *)
(*   nlabels how many LowLevelILLabel() objects were created               *)
(*   known   the addresses get_label_for_address has a label for           *)
(***************************************************************************)
il_nop == <<"LLIL_NOP">>

il_unimplemented == <<"LLIL_UNIMPL">>

il_reg(size, reg) == <<"LLIL_REG", size, reg>>

il_const(size, value) == <<"LLIL_CONST", size, value>>

il_const_pointer(size, value) == <<"LLIL_CONST_PTR", size, value>>

il_set_reg(size, reg, value) == <<"LLIL_SET_REG", size, reg, value>>

\* a flag write that lands in the carry flag whatever flag is named
il_set_flag_carry(flag, value) == <<"LLIL_SET_FLAG", "cy", value>>

il_set_flag(flag, value) == <<"LLIL_SET_FLAG", flag, value>>

il_add(size, a, b, flags) == <<"LLIL_ADD", size, a, b, flags>>

il_sub(size, a, b, flags) == <<"LLIL_SUB", size, a, b, flags>>

il_and_expr(size, a, b, flags) == <<"LLIL_AND", size, a, b, flags>>

il_or_expr(size, a, b, flags) == <<"LLIL_OR", size, a, b, flags>>

il_xor_expr(size, a, b, flags) == <<"LLIL_XOR", size, a, b, flags>>

il_not_expr(size, a, flags) == <<"LLIL_NOT", size, a, flags>>

il_shift_left(size, a, b, flags) == <<"LLIL_LSL", size, a, b, flags>>

il_logical_shift_right(size, a, b, flags) == <<"LLIL_LSR", size, a, b, flags>>

il_arith_shift_right(size, a, b, flags) == <<"LLIL_ASR", size, a, b, flags>>

il_mult(size, a, b) == <<"LLIL_MUL", size, a, b, "">>

il_mult_double_prec_signed(size, a, b) == <<"LLIL_MULS_DP", size, a, b, "">>

il_mult_double_prec_unsigned(size, a, b) == <<"LLIL_MULU_DP", size, a, b, "">>

il_sign_extend(size, value) == <<"LLIL_SX", size, value>>

il_zero_extend(size, value) == <<"LLIL_ZX", size, value>>

il_load(size, address) == <<"LLIL_LOAD", size, address>>

il_store(size, address, value) == <<"LLIL_STORE", size, address, value>>

il_push(size, value) == <<"LLIL_PUSH", size, value>>

il_pop(size) == <<"LLIL_POP", size>>

il_jump(dest) == <<"LLIL_JUMP", dest>>

il_call(dest) == <<"LLIL_CALL", dest>>

il_ret(dest) == <<"LLIL_RET", dest>>

il_flag_condition(cond) == <<"LLIL_FLAG_COND", cond>>

il_if_expr(cond, t, f) == <<"LLIL_IF", cond, t, f>>

\* a LowLevelILFunction the framework hands to the lifter
NewIL(known) == [ops |-> <<>>, marks |-> <<>>, nlabels |-> 0, known |-> known]

il_append(f, expr) == [f EXCEPT !.ops = Append(@, expr)]

il_mark_label(f, label) == [f EXCEPT !.marks = Append(@, <<label, Len(f.ops)>>)]

\* a framework that never has a label for an address
il_get_label_for_address_none(f, address) == None

\* il.get_label_for_address(arch, address): a label, or None
il_get_label_for_address(f, address) ==
    IF address \in f.known THEN <<"addr", address>> ELSE None

BranchConditionToILCondition ==
    << "LLFC_O", "LLFC_ULT", "LLFC_E", "LLFC_ULE", "LLFC_NEG", "None", "LLFC_SLT",
       "LLFC_SLE", "LLFC_NO", "LLFC_UGE", "LLFC_NE", "LLFC_UGT", "LLFC_POS", "None",
       "LLFC_SGE", "LLFC_SGT" >>

\* BranchConditionCode.index(instr)
BranchConditionIndex(instr) ==
    (CHOOSE i \in 1..Len(BranchConditionCode) : BranchConditionCode[i] = instr) - 1

(***************************************************************************)
(* The flags of the architecture and its flag-write types                  *)
(***************************************************************************)
flags == {"sat", "cy", "ov", "s", "z"}

\* the first entry, '', tags an operation that writes no flag
flag_write_types == <<"", "*", "ovsz">>

flags_written_by_flag_write_type_saturating ==
    ("*" :> {"cy", "z", "ov", "s", "sat"}) @@ ("ovsz" :> {"z", "ov", "s"})

flags_written_by_flag_write_type ==
    ("*" :> {"cy", "z", "ov", "s"}) @@ ("ovsz" :> {"z", "ov", "s"})

StorageSize ==
    [i \in LoadInstructions \cup StoreInstructions |->
        IF i \in {"ld.b", "ld.bu", "sld.b", "sld.bu", "st.b", "sst.b"} THEN 1
        ELSE IF i \in {"ld.h", "ld.hu", "sld.h", "sld.hu", "st.h", "sst.h"} THEN 2
        ELSE 4]

to_il_src_reg(reg, width) ==
    IF Val(reg) # 0 THEN il_reg(width, RegisterName(Val(reg)))
    ELSE il_const(0, PyInt(0))

\* to_il_set_reg without the test for r0
to_il_set_reg_always(reg, val) == il_set_reg(4, reg, val)

to_il_set_reg(reg, val) == IF reg # "r0" THEN il_set_reg(4, reg, val) ELSE val

cond_branch(f, cond, dest) ==
    LET found == IF dest[1] = "LLIL_CONST" THEN il_get_label_for_address(f, dest[3])
                 ELSE None
        indirect == found = None
        t == IF indirect THEN <<"label", f.nlabels + 1>> ELSE found
        n1 == IF indirect THEN f.nlabels + 1 ELSE f.nlabels
        fl == <<"label", n1 + 1>>
        f1 == il_append([f EXCEPT !.nlabels = n1 + 1], il_if_expr(cond, t, fl))
        f2 == IF indirect THEN il_append(il_mark_label(f1, t), il_jump(dest)) ELSE f1
    IN  il_mark_label(f2, fl)

\* sorted(dst_reg.bit._fields_, key = name): the names are "r" and two digits,
\* so their string order is the order of their numbers
FieldKey ==
    [n \in {Register_List_Bits[i] : i \in 1..Len(Register_List_Bits)} |->
        CHOOSE k \in 20..31 : n = IF k = 30 THEN "r30" ELSE IF k = 31 THEN "r31"
                                  ELSE RegisterName(k)]

\* the fields in the order of their declaration, not sorted by name
sorted_fields_declared(reverse) ==
    IF reverse
    THEN [i \in 1..Len(Register_List_Bits) |->
            Register_List_Bits[Len(Register_List_Bits) + 1 - i]]
    ELSE Register_List_Bits

sorted_fields(reverse) ==
    IF reverse THEN SortSeq(Register_List_Bits, LAMBDA x, y : FieldKey[x] > FieldKey[y])
    ELSE SortSeq(Register_List_Bits, LAMBDA x, y : FieldKey[x] < FieldKey[y])

printable_regname(regname) ==
    IF regname = "r30" THEN "ep" ELSE IF regname = "r31" THEN "lp" ELSE regname

\* the registers of the list a loop over the sorted fields visits with its bit set
listed_registers(asWord, reverse) ==
    SelectSeq(sorted_fields(reverse), LAMBDA r : RegListBit(asWord, r) = 1)


(***************************************************************************)
(* V850.get_instruction_low_level_il                                       *)
(***************************************************************************)
LiftOps(ops) == [exc |-> "none", ops |-> ops]

LiftRaise(e) == [exc |-> e, ops |-> <<>>]

\* Registers[reg] and to_il_src_reg(il, reg) raise TypeError on reg = None
Indexed(regs, body) == IF \E r \in regs : r = None THEN LiftRaise("TypeError") ELSE body

\* dispose popping in the order prepare pushes (sorted without reverse)
lift_dispose_ascending(r) ==
    LET regs == listed_registers(Val(r.dst), FALSE)
    IN  LiftOps(
          (IF PyPositive(r.immed)
           THEN <<il_set_reg(4, "sp", il_add(4, il_reg(4, "sp"), il_const(4, r.immed), ""))>>
           ELSE <<>>)
          \o [i \in 1..Len(regs) |-> il_set_reg(4, printable_regname(regs[i]), il_pop(4))]
          \o (IF r.src # None THEN <<il_ret(to_il_src_reg(r.src, 4))>> ELSE <<>>))

lift_dispose(r) ==
    LET regs == listed_registers(Val(r.dst), TRUE)
    IN  LiftOps(
          (IF PyPositive(r.immed)
           THEN <<il_set_reg(4, "sp", il_add(4, il_reg(4, "sp"), il_const(4, r.immed), ""))>>
           ELSE <<>>)
          \o [i \in 1..Len(regs) |-> il_set_reg(4, printable_regname(regs[i]), il_pop(4))]
          \o (IF r.src # None THEN <<il_ret(to_il_src_reg(r.src, 4))>> ELSE <<>>))

lift_prepare(r) ==
    LET regs == listed_registers(Val(r.dst), FALSE)
    IN  LiftOps(
          [i \in 1..Len(regs) |-> il_push(4, il_reg(4, printable_regname(regs[i])))]
          \o (IF PyPositive(r.immed)
              THEN <<il_set_reg(4, "sp", il_sub(4, il_reg(4, "sp"), il_const(4, r.immed), ""))>>
              ELSE <<>>)
          \o (IF r.src # None
              THEN IF Val(r.length) = 4
                   THEN <<il_set_reg(4, "ep", to_il_src_reg(r.src, 4))>>
                   ELSE <<il_set_reg(4, "ep", il_const(4, r.src))>>
              ELSE <<>>))

lift_mul(r) ==
    Indexed({r.reg3, r.dst} \cup (IF r.immed = None THEN {r.src} ELSE {}),
      LET dst_hi == RegisterName(Val(r.reg3))
          dst_lo == RegisterName(Val(r.dst))
          op1 == IF r.immed = None THEN to_il_src_reg(r.src, 4) ELSE il_const(4, r.immed)
          mul_result == IF r.instr = "mul"
                        THEN il_mult_double_prec_signed(8, to_il_src_reg(r.dst, 4), op1)
                        ELSE il_mult_double_prec_unsigned(8, to_il_src_reg(r.dst, 4), op1)
      IN  LiftOps(
            <<to_il_set_reg(dst_hi, il_logical_shift_right(4, mul_result,
                                                           il_const(4, PyInt(32)), ""))>>
            \o (IF dst_hi # dst_lo THEN <<to_il_set_reg(dst_lo, mul_result)>> ELSE <<>>)))

lift_logical(r) ==
    Indexed({r.src, r.dst},
      LET src == IF r.immed = None THEN to_il_src_reg(r.dst, 4) ELSE il_const(4, r.immed)
          a == to_il_src_reg(r.src, 4)
          expr == CASE r.instr \in {"and", "andi"} -> il_and_expr(4, a, src, "ovsz")
                    [] r.instr \in {"or", "ori"} -> il_or_expr(4, a, src, "ovsz")
                    [] r.instr \in {"xor", "xori"} -> il_xor_expr(4, a, src, "ovsz")
                    [] r.instr = "not" -> il_not_expr(4, a, "ovsz")
      IN  LiftOps(<<to_il_set_reg(RegisterName(Val(r.dst)), expr),
                    il_set_flag("ov", il_const(0, PyInt(0)))>>))

lift_shift(r) ==
    Indexed({r.dst} \cup (IF r.immed = None THEN {r.src} ELSE {}),
      LET shiftee == to_il_src_reg(r.dst, 4)
          shift_amount == IF r.immed # None THEN il_const(4, r.immed)
                          ELSE to_il_src_reg(r.src, 4)
          store_in == IF r.reg3 = None THEN RegisterName(Val(r.dst))
                      ELSE RegisterName(Val(r.reg3))
          less_one == il_sub(4, shift_amount, il_const(1, PyInt(1)), "")
          expr == CASE r.instr = "shr" -> il_logical_shift_right(4, shiftee, shift_amount, "*")
                    [] r.instr = "shl" -> il_shift_left(4, shiftee, shift_amount, "*")
                    [] r.instr = "sar" -> il_arith_shift_right(4, shiftee, shift_amount, "*")
          carry == IF r.instr = "shl"
                   THEN il_and_expr(1, il_const(4, <<\h8000, 0>>),
                                    il_shift_left(4, shiftee, less_one, ""), "")
                   ELSE il_and_expr(1, il_const(1, PyInt(1)),
                                    il_logical_shift_right(4, shiftee, less_one, ""), "")
      IN  LiftOps(<<to_il_set_reg(store_in, expr), il_set_flag("cy", carry),
                    il_set_flag("ov", il_const(0, PyInt(0)))>>))

lift_memory(r) ==
    IF r.instr \in StoreInstructions
    THEN LET dst_reg == IF r.dst = None THEN PyInt(RegistersIndex("ep")) ELSE r.dst
         IN  Indexed({r.src},
               LiftOps(<<il_store(StorageSize[r.instr],
                                  il_add(4, to_il_src_reg(dst_reg, 4), il_const(4, r.immed), ""),
                                  to_il_src_reg(r.src, 4))>>))
    ELSE LET src_reg == IF r.src = None THEN PyInt(RegistersIndex("ep")) ELSE r.src
             loaded == il_load(StorageSize[r.instr],
                               il_add(4, to_il_src_reg(src_reg, 4), il_const(4, r.immed), ""))
         IN  Indexed({r.dst},
               LiftOps(<<to_il_set_reg(RegisterName(Val(r.dst)),
                           IF r.instr \in {"ld.bu", "ld.hu", "sld.bu", "sld.hu"}
                           THEN il_zero_extend(4, loaded)
                           ELSE il_sign_extend(4, loaded))>>))

lift_arith(r, a) ==
    LET D == RegisterName(Val(r.dst))
        src_or_immed == IF r.immed = None THEN to_il_src_reg(r.src, 4)
                        ELSE il_const(4, r.immed)
        need == {r.dst} \cup (IF r.immed = None THEN {r.src} ELSE {})
    IN  CASE r.instr = "mov" ->
                 IF r.src # None
                 THEN Indexed({r.dst}, LiftOps(<<to_il_set_reg(D, to_il_src_reg(r.src, 4))>>))
                 ELSE Indexed({r.dst}, LiftOps(<<to_il_set_reg(D, il_const(4, r.immed))>>))
          [] r.instr = "movhi" ->
                 Indexed({r.src, r.dst}, LiftOps(<<to_il_set_reg(D,
                     il_add(4, to_il_src_reg(r.src, 4),
                            il_shift_left(4, il_const(2, r.immed), il_const(1, PyInt(16)), ""),
                            ""))>>))
          [] r.instr = "movea" ->
                 Indexed({r.src, r.dst}, LiftOps(<<to_il_set_reg(D,
                     il_add(4, to_il_src_reg(r.src, 4), il_const(4, r.immed), ""))>>))
          [] r.instr = "add" ->
                 Indexed(need, LiftOps(<<to_il_set_reg(D,
                     il_add(4, src_or_immed, to_il_src_reg(r.dst, 4), "*"))>>))
          [] r.instr = "addi" ->
                 Indexed({r.src, r.dst}, LiftOps(<<to_il_set_reg(D,
                     il_add(4, il_const(4, r.immed), to_il_src_reg(r.src, 4), "*"))>>))
          [] r.instr = "sub" ->
                 Indexed({r.src, r.dst}, LiftOps(<<to_il_set_reg(D,
                     il_sub(4, to_il_src_reg(r.dst, 4), to_il_src_reg(r.src, 4), "*"))>>))
          [] r.instr = "subr" ->
                 Indexed({r.src, r.dst}, LiftOps(<<to_il_set_reg(D,
                     il_sub(4, to_il_src_reg(r.src, 4), to_il_src_reg(r.dst, 4), "*"))>>))
          [] r.instr = "mulh" ->
                 Indexed(need, LiftOps(<<to_il_set_reg(D,
                     il_mult(4, IF r.immed = None THEN to_il_src_reg(r.src, 2)
                                ELSE il_const(2, r.immed),
                             to_il_src_reg(r.dst, 2)))>>))
          [] r.instr = "mulhi" ->
                 Indexed({r.src, r.dst}, LiftOps(<<to_il_set_reg(D,
                     il_mult(4, il_const(2, r.immed), to_il_src_reg(r.src, 2)))>>))
          [] r.instr = "cmp" ->
                 Indexed(need, LiftOps(<<il_sub(4, to_il_src_reg(r.dst, 4), src_or_immed, "*")>>))
          [] r.instr \in {"zxb", "zxh", "sxb", "sxh"} ->
                 LET w == IF r.instr \in {"zxb", "sxb"} THEN 1 ELSE 2
                 IN  Indexed({r.dst}, LiftOps(<<to_il_set_reg(D,
                         IF r.instr \in {"zxb", "zxh"}
                         THEN il_zero_extend(4, to_il_src_reg(r.dst, w))
                         ELSE il_sign_extend(4, to_il_src_reg(r.dst, w)))>>))

\* a switch whose table starts at the instruction itself
lift_switch_at_instruction(r, a) ==
    Indexed({r.dst},
      LET pc == il_const(4, a)
          switch_addr == il_add(4, il_shift_left(4, il_reg(4, RegisterName(Val(r.dst))),
                                                 il_const(1, PyInt(1)), ""),
                                pc, "")
          new_pc == il_add(4, il_shift_left(4, il_sign_extend(4, il_load(2, switch_addr)),
                                            il_const(1, PyInt(1)), ""),
                           pc, "")
      IN  LiftOps(<<il_jump(new_pc)>>))

lift_switch(r, a) ==
    Indexed({r.dst},
      LET pc_plus_two == il_const(4, PyAdd(a, PyInt(2)))
          switch_addr == il_add(4, il_shift_left(4, il_reg(4, RegisterName(Val(r.dst))),
                                                 il_const(1, PyInt(1)), ""),
                                pc_plus_two, "")
          new_pc == il_add(4, il_shift_left(4, il_sign_extend(4, il_load(2, switch_addr)),
                                            il_const(1, PyInt(1)), ""),
                           pc_plus_two, "")
      IN  LiftOps(<<il_jump(new_pc)>>))

\* the branches of the if/elif chain that only append operations
lift_instr(r, a) ==
    CASE r.instr \in {"nop", "synce", "syncm", "syncp", "di", "ei"} -> LiftOps(<<il_nop>>)
      [] r.instr \in {"feret", "eiret", "ctret", "reti"} ->
             LiftOps(<<il_ret(il_reg(4, "lp"))>>)
      [] r.instr = "jmp" ->
             Indexed({r.dst}, LiftOps(<<il_jump(il_reg(4, RegisterName(Val(r.dst))))>>))
      [] r.instr = "dispose" -> lift_dispose(r)
      [] r.instr = "prepare" -> lift_prepare(r)
      [] /\ r.instr \in {"mov", "movhi", "movea", "add", "addi", "sub", "subr", "mulh",
                         "mulhi", "cmp", "zxb", "zxh", "sxb", "sxh"}
         /\ ~(r.instr = "movhi" /\ r.dst = None) -> lift_arith(r, a)
      [] r.instr \in StoreInstructions \cup LoadInstructions -> lift_memory(r)
      [] r.instr = "jarl" ->
             LiftOps(<<il_call(il_const_pointer(4, PyAdd(sign_extend32(r.immed), a)))>>)
      [] r.instr \in {"jr", "br"} ->
             LiftOps(<<il_jump(il_const(4, PyAdd(sign_extend32(r.immed), a)))>>)
      [] r.instr \in {"mul", "mulu"} -> lift_mul(r)
      [] r.instr \in {"and", "andi", "or", "ori", "xor", "xori", "not"} -> lift_logical(r)
      [] r.instr \in {"shr", "shl", "sar"} -> lift_shift(r)
      [] r.instr = "switch" -> lift_switch(r, a)
      [] OTHER -> LiftOps(<<il_unimplemented>>)

RECURSIVE il_append_all(_, _)
il_append_all(f, ops) ==
    IF ops = <<>> THEN f ELSE il_append_all(il_append(f, Head(ops)), Tail(ops))

\* the il.append calls of a case of the elif chain, and the return of length
lifted(out, r, f) ==
    IF out.exc # "none" THEN [exc |-> out.exc, ret |-> None, il |-> f]
    ELSE [exc |-> "none", ret |-> r.length, il |-> il_append_all(f, out.ops)]

\* the lifter on the record r that decode_instruction returned.
\* il.flag_condition(None) hands None to the framework's native expression
\* builder; whether it raises there is the framework's: fc_none is the
\* outcome, "raise" or "expr"
lift_record(r, a, f, fc_none) ==
    LET Result(e, v, g) == [exc |-> e, ret |-> v, il |-> g]
    IN  IF r.exc # "none" THEN Result(r.exc, None, f)
        ELSE IF r.instr = NoInstr THEN Result("none", None, f)
        ELSE IF r.instr # "br" /\ r.instr \in {BranchConditionCode[i] : i \in 1..16}
        THEN LET c == BranchConditionToILCondition[BranchConditionIndex(r.instr) + 1]
                 branch_target == il_const(4, PyAdd(sign_extend32(r.immed), a))
             IN  IF c = "None" /\ fc_none = "raise" THEN Result("ArgumentError", None, f)
                 ELSE Result("none", r.length,
                             cond_branch(f, il_flag_condition(c), branch_target))
        ELSE lifted(lift_instr(r, a), r, f)

get_instruction_low_level_il(table, d, a, f, fc_none) ==
    lift_record(decode(table, d, a), a, f, fc_none)

(***************************************************************************)
(* V850.get_instruction_info                                               *)
(***************************************************************************)
\* a first-letter test that takes bsa for a byte/halfword swap like bsw, bsh
StartsWithB_swaps(instr) ==
    instr \in ({BranchConditionCode[i] : i \in 1..16} \ {"bsa"}) \cup {"bsw", "bsh"}

\* instr[0] == 'b' over the mnemonics the decoder produces
StartsWithB(instr) ==
    instr \in {BranchConditionCode[i] : i \in 1..16} \cup {"bsw", "bsh"}

\* InstructionInfo: length and the branches added, in order; add_branch
\* without a target records target 0
InstructionInfo(length, branches) == [length |-> length, branches |-> branches]

\* the classifier on the record r that decode_instruction returned
classify_record(r, a) ==
    LET Result(e, v) == [exc |-> e, ret |-> v]
        branch_target == PyAdd(sign_extend32(r.immed), a)
        Info(b) == Result("none", InstructionInfo(r.length, b))
    IN  IF r.exc # "none" THEN Result(r.exc, None)
        ELSE IF r.instr = NoInstr THEN Result("none", None)
        ELSE IF StartsWithB(r.instr) /\ r.instr # "bsw" /\ r.instr # "bsh"
        THEN IF r.instr = "br"
             THEN Info(<< <<"UnconditionalBranch", branch_target>> >>)
             ELSE Info(<< <<"TrueBranch", branch_target>>,
                          <<"FalseBranch", PyAdd(a, r.length)>> >>)
        ELSE IF r.instr = "jmp" THEN Info(<< <<"IndirectBranch", PyInt(0)>> >>)
        ELSE IF r.instr = "jarl" THEN Info(<< <<"CallDestination", branch_target>> >>)
        ELSE IF r.instr = "jr" THEN Info(<< <<"UnconditionalBranch", branch_target>> >>)
        ELSE IF r.instr = "dispose" /\ r.dst # None
        THEN Info(<< <<"FunctionReturn", PyInt(0)>> >>)
        ELSE IF r.instr = "switch" THEN Info(<< <<"IndirectBranch", PyInt(0)>> >>)
        ELSE IF r.instr \in {"feret", "eiret", "ctret", "reti"}
        THEN Info(<< <<"FunctionReturn", PyInt(0)>> >>)
        ELSE Info(<<>>)

get_instruction_info(table, d, a) == classify_record(decode(table, d, a), a)


(***************************************************************************)
(* Byte windows.  The inputs of a behaviour are drawn when it starts: a    *)
(* window of 0 to max_instr_length bytes and the address it is read at.    *)
(***************************************************************************)
max_instr_length == 8

\* registers sampled in the register fields: 0 .. MaxReg, and 17 and 31
MaxReg == 1

\* addresses sampled: AddrStep * (0 .. MaxAddr)
MaxAddr == 1

AddrStep == 4096

RegSamples == (0..MaxReg) \cup {17, 31}

Addrs == {PyInt(AddrStep * k) : k \in 0..MaxAddr}

\* the first word with the given register and opcode fields
Word1(reg2, opcode, reg1) == reg2 * 2048 + opcode * 32 + reg1

\* the second word of the extended class
Word2(reg3, subop, sub_subop) == reg3 * 2048 + subop * 32 + sub_subop

\* the first n bytes of the little-endian bytes of four words
Window(w1, tail, n) ==
    LET words == <<w1>> \o tail
    IN  [i \in 1..n |-> IF i % 2 = 1 THEN words[(i + 1) \div 2] % 256
                        ELSE words[i \div 2] \div 256]

Zeros == <<\h0000, \h0000, \h0000>>

Tails ==
    { Zeros, <<\h0001, \h0000, \h0000>>, <<\hfffe, \hffff, \h0000>>,
      <<\h8001, \h8000, \hffff>>, <<\h003f, \h0001, \h0000>>,
      <<\hffe0, \h7fff, \h0001>> }

\* second words of the 0x3c/0x3d rules: every subop, with and without mask bits
Tails3c ==
    { <<i2, i3, \h8000>> : i2 \in {sub + m : sub \in 0..31, m \in {\h0000, \h8020}},
                           i3 \in {\h0000, \hffff} }

\* second words of the extended class: every subop with the keys its table
\* holds and one it does not hold
TailsExt ==
    UNION { { <<Word2(r3, sub, k), \h0000, \h0000>> :
                r3 \in {0, 5, 6},
                k \in {8} \cup (IF sub \in DOMAIN ExtendedInstructionsKeys
                                THEN ExtendedInstructionsKeys[sub] ELSE {}) } :
            sub \in 0..63 }

\* windows whose record may carry a PC-relative displacement
ControlWindows ==
    {Window(Word1(r2, op, r1), Zeros, max_instr_length) :
        r2 \in RegSamples, op \in \h2c..\h2f, r1 \in 0..31}
    \cup {Window(Word1(r2, op, r1), t, max_instr_length) :
            r2 \in RegSamples, op \in {\h17, \h3c, \h3d}, r1 \in RegSamples, t \in Tails}

OtherWindows ==
    {Window(w1, Zeros, max_instr_length) : w1 \in DOMAIN NoRegisterInstructions}
    \cup {Window(Word1(r2, op, r1), Zeros, max_instr_length) :
            r2 \in RegSamples, op \in (\h00..\h2b) \ {\h17}, r1 \in RegSamples}
    \cup {Window(Word1(r2, op, r1), t, max_instr_length) :
            r2 \in RegSamples, op \in (\h30..\h3f) \ {\h3c, \h3d}, r1 \in RegSamples,
            t \in Tails}
    \cup {Window(Word1(0, op, r1), t, max_instr_length) :
            op \in {\h3c, \h3d}, r1 \in {0, 31}, t \in Tails3c}
    \cup {Window(Word1(r2, \h3f, r1), t, max_instr_length) :
            r2 \in {0, 5}, r1 \in {0, 5}, t \in TailsExt}

\* first words of every class, cut short
ShortWindows ==
    {Window(Word1(r2, op, r1), t, n) :
        r2 \in {0, 1}, op \in {\h00, \h17, \h2c} \cup (\h30..\h3f), r1 \in {0, 1},
        t \in {Zeros, <<\h001b, \h0000, \h0000>>, <<\h000b, \h0000, \h0000>>},
        n \in 0..(max_instr_length - 1)}

Inputs ==
    (ControlWindows \X Addrs) \cup ((OtherWindows \cup ShortWindows) \X {PyInt(AddrStep)})

(***************************************************************************)
(* The state machine: the framework calls the three entry points on the    *)
(* window, in any order, any number of times.                              *)
(*   call  the entry point called last                                     *)
(*   ret   what it returned (exc: the exception it raised, or "none")      *)
(*   il    the IL function handed to the last get_instruction_low_level_il *)
(***************************************************************************)
InitState ==
    /\ call = "none"
    /\ ret = [exc |-> "none", ret |-> None]
    /\ il = NewIL({})
    /\ ExtendedInstructions = ExtendedInstructionsInit

Init ==
    /\ \E input \in Inputs : data = input[1] /\ addr = input[2]
    /\ InitState

DecodeInstruction ==
    /\ call' = "decode_instruction"
    /\ ret' = decode_instruction(data, addr)
    /\ ExtendedInstructions' = decode_table(ExtendedInstructions, data)
    /\ UNCHANGED <<data, addr, il>>

GetInstructionInfo ==
    /\ call' = "get_instruction_info"
    /\ ret' = get_instruction_info(ExtendedInstructions, data, addr)
    /\ ExtendedInstructions' = decode_table(ExtendedInstructions, data)
    /\ UNCHANGED <<data, addr, il>>

\* the targets of the true edges of a classifier result
TrueTargets(i) ==
    IF i.exc # "none" \/ i.ret = None THEN {}
    ELSE {i.ret.branches[k][2] : k \in {j \in 1..Len(i.ret.branches) :
                                          i.ret.branches[j][1] = "TrueBranch"}}

\* the lifter returns (or raises) out, having appended to the IL function
ReturnLift(out) ==
    /\ call' = "get_instruction_low_level_il"
    /\ ret' = [exc |-> out.exc, ret |-> out.ret]
    /\ il' = out.il
    /\ ExtendedInstructions' = decode_table(ExtendedInstructions, data)
    /\ UNCHANGED <<data, addr>>

\* the IL function handed over holds labels for some of the addresses the
\* framework has learned as branch targets from get_instruction_info
GetInstructionLowLevelIL ==
    \E known \in SUBSET TrueTargets(get_instruction_info(ExtendedInstructions, data, addr)),
       fc_none \in {"raise", "expr"} :
        ReturnLift(get_instruction_low_level_il(ExtendedInstructions, data, addr,
                                                NewIL(known), fc_none))

Next == DecodeInstruction \/ GetInstructionInfo \/ GetInstructionLowLevelIL

Spec == Init /\ [][Next]_vars

(***************************************************************************)
(* Windows of prepare and dispose over a sample of register-list masks     *)
(***************************************************************************)
\* masks sampled: at most MaxSetBits bits set, and the full list
MaxSetBits == 2

RECURSIVE PopCount(_)
PopCount(m) == IF m = 0 THEN 0 ELSE (m % 2) + PopCount(m \div 2)

Masks == {m \in 0..4095 : PopCount(m) <= MaxSetBits} \cup {4095}

\* first word of prepare/dispose: reg2 = 0, bit 0 is bit 11 of the mask and
\* bit 1 is the low bit of the frame size field
FrameWord1(op, size_bit, m) == Word1(0, op, 2 * size_bit + (m \div 2048))

\* second word: the low 11 bits of the mask above the 5-bit field
FrameWord2(m, low5) == (m % 2048) * 32 + low5

FrameTail == <<\h8001, \h0002>>

PrepareWindows ==
    {Window(FrameWord1(\h3c, s, m), <<FrameWord2(m, subop)>> \o FrameTail,
            max_instr_length) :
        s \in {0, 1}, m \in Masks, subop \in {\h01, \h03, \h0b, \h13, \h1b}}
    \cup {Window(FrameWord1(\h3d, 0, m), <<FrameWord2(m, subop), \h0000, \h0000>>,
                 max_instr_length) :
            m \in {\h003, \h803}, subop \in {\h03, \h0b, \h13, \h1b}}

DisposeWindows ==
    {Window(FrameWord1(\h32, s, m), <<FrameWord2(m, reg1)>> \o FrameTail,
            max_instr_length) :
        s \in {0, 1}, m \in Masks, reg1 \in {0, 31}}
    \cup {Window(FrameWord1(\h33, 0, m), <<FrameWord2(m, 1)>> \o FrameTail,
                 max_instr_length) : m \in {\h003, \h803}}

InitFrame ==
    /\ data \in PrepareWindows \cup DisposeWindows
    /\ addr = PyInt(AddrStep)
    /\ InitState

SpecFrame == InitFrame /\ [][Next]_vars

(***************************************************************************)
(* Windows of the 16-bit register-register range, of the short branches,  *)
(* of opcode 0x17, of the exact patterns and of the first word 0x0623,     *)
(* read at address 0x2000                                                  *)
(***************************************************************************)
ExampleAddr == <<0, \h2000>>

\* every first word with an opcode field of 0x00 to 0x0f, alone
RegRegWindows ==
    {Window(Word1(r2, op, r1), Zeros, 2) : r2 \in 0..31, op \in \h00..\h0f, r1 \in 0..31}

Opcode17Windows ==
    {Window(Word1(r2, \h17, r1), t, n) :
        r2 \in RegSamples, r1 \in 0..31, t \in Tails, n \in 2..max_instr_length}

\* the first words of NoRegisterInstructions and the word pairs of
\* ThirtyTwoBitNoRegisterInstructions, followed by other words
ExactWindows ==
    {Window(w1, t, n) :
        w1 \in {\h0000, \h001d, \h001e, \h001f, \h0040}, t \in Tails,
        n \in 2..max_instr_length}
    \cup {Window(w[1], <<w[2]>> \o t, n) :
            w \in { <<\h07e0, \h0120>>, <<\h07e0, \h0140>>, <<\h07e0, \h0144>>,
                    <<\h07e0, \h0148>>, <<\h07e0, \h014a>>, <<\h07e0, \h0160>>,
                    <<\h87e0, \h0160>> },
            t \in { <<\h0000, \h0000>>, <<\hffff, \hffff>>, <<\h07e0, \h0160>> },
            n \in 2..max_instr_length}

ExampleWindows == {Window(\h0623, t, n) : t \in Tails, n \in 2..max_instr_length}

\* every first word with an opcode field of 0x2c to 0x2f, alone
BranchWindows ==
    {Window(Word1(r2, op, r1), Zeros, 2) : r2 \in 0..31, op \in \h2c..\h2f, r1 \in 0..31}

InitDecode ==
    /\ data \in RegRegWindows \cup Opcode17Windows \cup ExactWindows \cup ExampleWindows
                \cup BranchWindows
    /\ addr = ExampleAddr
    /\ InitState

SpecDecode == InitDecode /\ [][Next]_vars

(***************************************************************************)
(* A sequence of calls on changing windows: the framework moves on to      *)
(* another window, and the tables keep what earlier calls stored in them   *)
(***************************************************************************)
\* second words of the extended class: keys the tables hold, keys they do
\* not hold (subops with and without a mnemonic in their default factory),
\* and a subop without a table
HistoryTails ==
    { <<Word2(5, sub[1], sub[2]), \h0000, \h0000>> :
        sub \in { <<\h01, 0>>, <<\h01, 8>>, <<\h11, 0>>, <<\h11, 1>>, <<\h18, 0>>,
                  <<\h18, 2>>, <<\h1c, \h1a>>, <<\h1c, 3>>, <<\h09, 0>> } }

HistoryWindows ==
    {Window(Word1(2, \h3f, 1), t, max_instr_length) : t \in HistoryTails}
    \cup {Window(Word1(0, \h2d, 5), Zeros, max_instr_length),
          Window(Word1(1, \h0e, 2), Zeros, 2)}

InitHistory ==
    /\ data \in HistoryWindows
    /\ addr \in Addrs
    /\ InitState

\* the framework turns to another window, at another address
ChangeWindow ==
    /\ data' \in HistoryWindows
    /\ addr' \in Addrs
    /\ call' = "none"
    /\ ret' = [exc |-> "none", ret |-> None]
    /\ il' = NewIL({})
    /\ UNCHANGED ExtendedInstructions

NextHistory == Next \/ ChangeWindow

SpecHistory == InitHistory /\ [][NextHistory]_vars

(***************************************************************************)
(* Windows of the shifts, of the multiplies and of switch, with register   *)
(* fields that agree and that differ                                       *)
(***************************************************************************)
ExecRegs == {0, 5, 6, 7}

\* shr, sar and shl by a 5-bit count
ShiftImmediateWindows ==
    {Window(Word1(r2, op, n), Zeros, 2) : r2 \in {0, 5}, op \in \h14..\h16, n \in 0..31}

\* shr, sar and shl by a register, with and without a third register
ShiftRegisterWindows ==
    {Window(Word1(r2, \h3f, r1), <<Word2(r3, sub, k), \h0000, \h0000>>, 4) :
        r1 \in ExecRegs, r2 \in ExecRegs, r3 \in ExecRegs, sub \in \h04..\h06, k \in {0, 2}}

\* mul and mulu by a register and by a 9-bit immediate
MultiplyWindows ==
    {Window(Word1(r2, \h3f, r1), <<Word2(r3, \h11, k), \h0000, \h0000>>, 4) :
        r1 \in ExecRegs, r2 \in ExecRegs, r3 \in ExecRegs, k \in {0, 2}}
    \cup {Window(Word1(r2, \h3f, r1), <<Word2(r3, \h12, k), \h0000, \h0000>>, 4) :
            r1 \in {0, 5, 31}, r2 \in {5, 6}, r3 \in {5, 6},
            k \in ExtendedInstructionsKeys[\h12]}

SwitchWindows == {Window(Word1(0, \h02, r1), Zeros, 2) : r1 \in 0..31}

InitExec ==
    /\ data \in ShiftImmediateWindows \cup ShiftRegisterWindows \cup MultiplyWindows
                \cup SwitchWindows
    /\ addr \in Addrs
    /\ InitState

SpecExec == InitExec /\ [][Next]_vars


(***************************************************************************)
(* Properties                                                              *)
(***************************************************************************)
\* the record decode_instruction returns for the window of the state
Record == decode_instruction(data, addr)

Decoded == Record.exc = "none" /\ Record.instr # NoInstr

Lifted == call = "get_instruction_low_level_il"

Classified == call = "get_instruction_info"

\* C1: on every window of 0 to 8 bytes decode_instruction returns without
\* raising, and what it returns is the all-absent failure tuple or a record
\* whose length is 2, 4, 6 or 8 and at most the length of the window.
C1_DecodeTotal ==
    call = "decode_instruction" =>
        /\ ret.exc = "none"
        /\ \/ ret = error_value
           \/ /\ ret.instr # NoInstr
              /\ ret.length # None
              /\ Val(ret.length) \in {2, 4, 6, 8}
              /\ Val(ret.length) <= Len(data)

\* mnemonics the lifter has no lowering for, among those the claim names
NoLowering == {"cmov", "tst", "divh", "set1", "callt", "fetrap", "halt", "setf"}

\* C2: for every record decoded from an 8-byte window the lifter returns the
\* record's length without raising and has appended at least one operation,
\* only the not-yet-modeled marker when the mnemonic has no lowering; when
\* decode fails, the lifter and the classifier return None and the lifter
\* appends nothing.
C2_LiftTotal ==
    /\ (Lifted /\ Len(data) = max_instr_length /\ Decoded) =>
          /\ ret.exc = "none"
          /\ ret.ret = Record.length
          /\ Len(il.ops) >= 1
          /\ Record.instr \in NoLowering => il.ops = <<il_unimplemented>>
    /\ ((Lifted \/ Classified) /\ Record = error_value) =>
          /\ ret = [exc |-> "none", ret |-> None]
          /\ il.ops = <<>>

\* values written over the bytes beyond the reported length
MutationBytes == {\h00, \h01, \hff}

\* the window with byte p replaced, or with every byte from p on replaced
Mutations(d, p) ==
    {[d EXCEPT ![p] = v] : v \in MutationBytes}
    \cup {[i \in 1..Len(d) |-> IF i >= p THEN v ELSE d[i]] : v \in MutationBytes}

\* C3: bytes beyond the length decode_instruction reports do not influence
\* the record: any 8-byte window that agrees with the decoded one on the bytes
\* of the reported length decodes to the same mnemonic, length and operands.
C3_LengthAgreement ==
    (call = "decode_instruction" /\ Len(data) = max_instr_length
        /\ ret.exc = "none" /\ ret.instr # NoInstr) =>
        \A p \in (Val(ret.length) + 1)..Len(data) :
            \A d \in Mutations(data, p) : decode_instruction(d, addr) = ret

\* a 6-byte record was decoded from a window with set bits in its last byte
C3_Witness ==
    /\ call = "decode_instruction"
    /\ Len(data) = max_instr_length
    /\ ret.exc = "none"
    /\ ret.instr = "prepare"
    /\ Val(ret.length) = 6
    /\ data[8] # 0

\* the registers a lift writes, in the order of its appends: the high and
\* the low word of a multiply, the reg3 of a three-register shift, and the
\* destination slot of the other moves, loads, arithmetic, logical and
\* extension lifts
Destinations(r) ==
    LET regs == CASE r.instr \in {"mul", "mulu"} ->
                        IF r.reg3 = r.dst THEN <<r.reg3>> ELSE <<r.reg3, r.dst>>
                  [] r.instr \in {"shr", "shl", "sar"} ->
                        <<IF r.reg3 = None THEN r.dst ELSE r.reg3>>
                  [] r.instr \in {"mov", "movhi", "movea", "add", "addi", "sub",
                                  "subr", "mulh", "mulhi", "and", "andi", "or",
                                  "ori", "xor", "xori", "not", "zxb", "zxh", "sxb",
                                  "sxh"} \cup LoadInstructions -> <<r.dst>>
                  [] OTHER -> <<>>
    IN  IF \E k \in 1..Len(regs) : regs[k] = None THEN <<>> ELSE regs

ValueOperations ==
    {"LLIL_REG", "LLIL_CONST", "LLIL_ADD", "LLIL_SUB", "LLIL_AND", "LLIL_OR",
     "LLIL_XOR", "LLIL_NOT", "LLIL_LSL", "LLIL_LSR", "LLIL_ASR", "LLIL_MUL",
     "LLIL_MULS_DP", "LLIL_MULU_DP", "LLIL_SX", "LLIL_ZX"}

WritesRegister(op, reg) == op[1] = "LLIL_SET_REG" /\ op[3] = reg

\* C4: the operations the lifter has appended never write r0; and where a
\* lift that returned has r0 as a destination, the operation appended for
\* that destination is the bare value expression, while any other
\* destination is written with a register write.
C4_RegisterZero ==
    Lifted =>
        /\ \A i \in 1..Len(il.ops) : ~WritesRegister(il.ops[i], "r0")
        /\ (ret.exc = "none" /\ Decoded) =>
              LET dests == Destinations(Record)
              IN  /\ Len(il.ops) >= Len(dests)
                  /\ \A k \in 1..Len(dests) :
                        IF Val(dests[k]) = 0
                        THEN il.ops[k][1] \in ValueOperations
                        ELSE WritesRegister(il.ops[k], RegisterName(Val(dests[k])))

\* an add with flags whose destination is r0 was lifted
C4_Witness ==
    /\ Lifted
    /\ ret.exc = "none"
    /\ Decoded
    /\ Record.instr = "add"
    /\ Record.dst = PyInt(0)
    /\ Len(il.ops) = 1
    /\ il.ops[1][1] = "LLIL_ADD"
    /\ il.ops[1][5] = "*"

\* the first word of the window, its opcode and register fields
FirstWord == unpack_H(data, 0)

Opcode == (FirstWord \div 32) % 64

\* the window holds a short branch: condition code in the low four bits,
\* 8-bit displacement in reg2 and bits 4 to 6, counted in halfwords
IsBranchWindow == Len(data) >= 2 /\ Opcode \in \h2c..\h2f

ConditionCode == FirstWord % 16

Displacement ==
    LET disp9 == 2 * ((FirstWord \div 2048) * 8 + ((FirstWord \div 16) % 8))
    IN  IF disp9 >= 256 THEN disp9 - 512 ELSE disp9

BranchTarget == PyAdd(addr, PyInt(Displacement))

ConditionalBranches ==
    {"bv", "bl", "be", "bnh", "bn", "blt", "ble", "bnv", "bnl", "bne", "bh", "bp",
     "bsa", "bge", "bgt"}

\* C5: for a record of one of the 15 conditional branch mnemonics (bsa
\* among them, br not) get_instruction_info reports exactly two edges, a true
\* edge to address + displacement and a false edge to address + length; for
\* a record of any other mnemonic it reports no true and no false edge.
C5_BranchSymmetry ==
    (Classified /\ ret.exc = "none" /\ ret.ret # None) =>
        LET edges == ret.ret.branches
        IN  IF Record.instr \in ConditionalBranches
            THEN /\ Len(edges) = 2
                 /\ \E i, j \in 1..2 :
                       /\ edges[i] = <<"TrueBranch", BranchTarget>>
                       /\ edges[j] = <<"FalseBranch", PyAdd(addr, Record.length)>>
            ELSE \A i \in 1..Len(edges) :
                    edges[i][1] \notin {"TrueBranch", "FalseBranch"}

\* a bsa with a negative displacement was classified
C5_Witness ==
    /\ Classified
    /\ ret.exc = "none"
    /\ Record.instr = "bsa"
    /\ Displacement < 0
    /\ Len(ret.ret.branches) = 2

\* C6: a short branch with condition code 5 (br) is an unconditional jump
\* for both consumers: the classifier reports one unconditional edge to
\* address + displacement and nothing else, the lifter appends one jump to
\* that address and nothing else.
C6_AlwaysBranch ==
    (IsBranchWindow /\ ConditionCode = 5) =>
        /\ Classified =>
              /\ ret.exc = "none"
              /\ ret.ret.branches = << <<"UnconditionalBranch", BranchTarget>> >>
        /\ Lifted =>
              /\ ret.exc = "none"
              /\ il.ops = <<il_jump(il_const(4, BranchTarget))>>

\* a br with a negative displacement was lifted
C6_Witness ==
    /\ IsBranchWindow
    /\ ConditionCode = 5
    /\ Displacement < 0
    /\ Lifted
    /\ Len(il.ops) = 1

\* C7: lifting a short branch with condition code 13 (bsa) appends the
\* not-yet-modeled marker and no conditional (if) operation.
C7_SaturatedBranchMarker ==
    (Lifted /\ IsBranchWindow /\ ConditionCode = 13) =>
        /\ \E i \in 1..Len(il.ops) : il.ops[i] = il_unimplemented
        /\ \A i \in 1..Len(il.ops) : il.ops[i][1] # "LLIL_IF"

\* the register-list mask of a prepare or dispose window: bit 11 is the low
\* bit of the first word, bits 0 to 10 are the upper 11 bits of the second
SecondWord == unpack_H(data, 2)

WindowMask == (FirstWord % 2) * 2048 + (SecondWord \div 32)

\* the frame size: the 5-bit field above bit 0 of the first word, in words
FrameSize == 4 * ((FirstWord \div 2) % 32)

\* the IL register each bit of the mask stands for, bit 0 first
ListRegister ==
    << "lp", "r29", "r28", "r23", "r22", "r21", "r20", "r27", "r26", "r25", "r24",
       "ep" >>

MaskBit(m, bit) == (m \div (2 ^ bit)) % 2

\* the listed registers of mask m by ascending bit of the mask
ByAscendingBit(m) ==
    LET bits == SelectSeq([i \in 1..12 |-> i - 1], LAMBDA b : MaskBit(m, b) = 1)
    IN  [i \in 1..Len(bits) |-> ListRegister[bits[i] + 1]]

\* the listed registers of mask m by ascending register number
ByAscendingRegister(m) ==
    LET order == << "r20", "r21", "r22", "r23", "r24", "r25", "r26", "r27", "r28",
                    "r29", "ep", "lp" >>
        bit(reg) == (CHOOSE i \in 1..12 : ListRegister[i] = reg) - 1
    IN  SelectSeq(order, LAMBDA reg : MaskBit(m, bit(reg)) = 1)

Pushes(regs) == [i \in 1..Len(regs) |-> il_push(4, il_reg(4, regs[i]))]

\* the adjustment of sp by the frame size, absent for a frame size of 0
FrameAdjust(operation) ==
    IF FrameSize = 0 THEN <<>>
    ELSE <<il_set_reg(4, "sp", <<operation, 4, il_reg(4, "sp"),
                                 il_const(4, PyInt(FrameSize)), "">>)>>

\* the write of ep of each form of prepare: none, from sp, from the
\* sign-extended third word, from the third word as the upper half, from the
\* third and fourth word
EpWrite ==
    LET subop == SecondWord % 32
        i3 == unpack_H(data, 4)
        i4 == unpack_H(data, 6)
    IN  CASE subop = \h01 -> <<>>
          [] subop = \h03 -> <<il_set_reg(4, "ep", il_reg(4, "sp"))>>
          [] subop = \h0b ->
                <<il_set_reg(4, "ep", il_const(4, IF i3 >= 32768 THEN PyInt(i3 - 65536)
                                                  ELSE PyInt(i3)))>>
          [] subop = \h13 -> <<il_set_reg(4, "ep", il_const(4, <<i3, 0>>))>>
          [] subop = \h1b -> <<il_set_reg(4, "ep", il_const(4, <<i4, i3>>))>>

LiftedPrepare == Lifted /\ Decoded /\ Record.instr = "prepare"

LiftedDispose == Lifted /\ Decoded /\ Record.instr = "dispose"

\* C8 (as claimed): lifting prepare appends one push per set bit of the mask
\* in ascending bit order of the mask, then the subtraction of the frame size
\* from sp unless it is 0, then the write of ep of the form, and nothing else.
C8_PrepareBitOrder ==
    LiftedPrepare =>
        /\ ret = [exc |-> "none", ret |-> Record.length]
        /\ il.ops = Pushes(ByAscendingBit(WindowMask)) \o FrameAdjust("LLIL_SUB")
                        \o EpWrite

\* C8 (amended): lifting prepare appends one push per set bit of the mask in
\* ascending order of the register numbers (r20 to r29, then ep, then lp),
\* then the subtraction of the frame size from sp unless it is 0, then the
\* write of ep of the form, and nothing else.
C8_PrepareRegisterOrder ==
    LiftedPrepare =>
        /\ ret = [exc |-> "none", ret |-> Record.length]
        /\ il.ops = Pushes(ByAscendingRegister(WindowMask)) \o FrameAdjust("LLIL_SUB")
                        \o EpWrite

\* the 8-byte form was lifted with lp (bit 0) and r29 (bit 1) listed and a
\* frame size that is not 0
C8_Witness ==
    /\ LiftedPrepare
    /\ WindowMask = 3
    /\ FrameSize # 0
    /\ Val(Record.length) = 8
    /\ Len(il.ops) = 4

\* the registers prepare pushes for mask m, in the order of the pushes
PreparePushed(m) ==
    LET ops == lift_prepare(Tuple8("prepare", PyInt(4), None, PyInt(m), None, None,
                                   PyInt(0), None)).ops
    IN  [i \in 1..Len(ops) |-> ops[i][3][3]]

\* the registers dispose pops for mask m, in the order of the pops
DisposePopped(m) ==
    LET ops == lift_dispose(Tuple8("dispose", PyInt(4), None, PyInt(m), None, None,
                                   PyInt(0), None)).ops
    IN  [i \in 1..Len(ops) |-> ops[i][3]]

Reverse(s) == [i \in 1..Len(s) |-> s[Len(s) + 1 - i]]

Range(s) == {s[i] : i \in 1..Len(s)}

\* C9: lifting dispose appends the addition of the frame size to sp unless
\* it is 0, then one pop into a register per set bit of the mask, the
\* registers being those prepare pushes for the same mask in reverse order,
\* then a return through the register of the record if it carries one, and
\* nothing else.
C9_DisposeMirror ==
    LiftedDispose =>
        LET popped == Reverse(PreparePushed(WindowMask))
            reg1 == SecondWord % 32
        IN  /\ ret = [exc |-> "none", ret |-> Record.length]
            /\ il.ops = FrameAdjust("LLIL_ADD")
                          \o [i \in 1..Len(popped) |-> il_set_reg(4, popped[i], il_pop(4))]
                          \o (IF reg1 = 0 THEN <<>>
                              ELSE <<il_ret(il_reg(4, Registers[reg1 + 1]))>>)

\* a dispose with two registers listed, a frame size and a return through lp
\* was lifted
C9_Witness ==
    /\ LiftedDispose
    /\ PopCount(WindowMask) = 2
    /\ FrameSize # 0
    /\ Record.src = PyInt(31)
    /\ Len(il.ops) = 4

\* the mask a set of listed registers encodes to
MaskOf(regs) ==
    LET RECURSIVE Sum(_)
        Sum(bit) == IF bit = 12 THEN 0
                    ELSE (IF ListRegister[bit + 1] \in regs THEN 2 ^ bit ELSE 0)
                         + Sum(bit + 1)
    IN  Sum(0)

\* C10: the mask the decoder assembles is the low bit of the first word
\* above the upper 11 bits of the second; the registers prepare pushes for
\* it are the registers dispose pops for it, they are among r20 to r29, ep
\* and lp, they are as many as the mask has set bits, and they encode back to
\* the mask (so no two masks list the same registers).
C10_MaskRoundTrip ==
    (Decoded /\ Record.instr \in {"prepare", "dispose"}) =>
        LET m == Val(Record.dst)
            pushed == Range(PreparePushed(m))
        IN  /\ m = WindowMask
            /\ pushed = Range(DisposePopped(m))
            /\ pushed \subseteq Range(ListRegister)
            /\ Cardinality(pushed) = PopCount(m)
            /\ MaskOf(pushed) = m
            /\ LiftedPrepare => Range(PreparePushed(m)) = {il.ops[i][3][3] :
                                    i \in {j \in 1..Len(il.ops) : il.ops[j][1] = "LLIL_PUSH"}}
            /\ LiftedDispose => Range(DisposePopped(m)) = {il.ops[i][3] :
                                    i \in {j \in 1..Len(il.ops) :
                                             /\ il.ops[j][1] = "LLIL_SET_REG"
                                             /\ il.ops[j][4] = il_pop(4)}}

\* a prepare listing all twelve registers was lifted
C10_Witness ==
    /\ LiftedPrepare
    /\ WindowMask = 4095
    /\ Len(il.ops) >= 12

(***************************************************************************)
(* Flags                                                                   *)
(***************************************************************************)
\* the flag-write type an expression is tagged with ("" for none)
Tag(e) ==
    IF e[1] \in {"LLIL_ADD", "LLIL_SUB", "LLIL_AND", "LLIL_OR", "LLIL_XOR", "LLIL_LSL",
                 "LLIL_LSR", "LLIL_ASR", "LLIL_MUL", "LLIL_MULS_DP", "LLIL_MULU_DP"}
    THEN e[5]
    ELSE IF e[1] = "LLIL_NOT" THEN e[4]
    ELSE ""

\* the operand expressions of an expression
Children(e) ==
    IF e[1] \in {"LLIL_ADD", "LLIL_SUB", "LLIL_AND", "LLIL_OR", "LLIL_XOR", "LLIL_LSL",
                 "LLIL_LSR", "LLIL_ASR", "LLIL_MUL", "LLIL_MULS_DP", "LLIL_MULU_DP",
                 "LLIL_STORE"}
    THEN {e[3], e[4]}
    ELSE IF e[1] = "LLIL_SET_REG" THEN {e[4]}
    ELSE IF e[1] \in {"LLIL_NOT", "LLIL_SX", "LLIL_ZX", "LLIL_LOAD", "LLIL_PUSH",
                      "LLIL_SET_FLAG"}
    THEN {e[3]}
    ELSE IF e[1] \in {"LLIL_JUMP", "LLIL_CALL", "LLIL_RET", "LLIL_IF"} THEN {e[2]}
    ELSE {}

\* the flag-write types that tag an expression or one of its operands
RECURSIVE Tags(_)
Tags(e) == {Tag(e)} \cup UNION {Tags(c) : c \in Children(e)}

\* the flags an appended operation writes: the flag of a flag write, and the
\* flags of the flag-write types it is tagged with
FlagsWritten(op) ==
    (IF op[1] = "LLIL_SET_FLAG" THEN {op[2]} ELSE {})
    \cup UNION {flags_written_by_flag_write_type[t] : t \in Tags(op) \ {""}}

\* the flags the operations appended by the last lift write
FlagsOfLift == UNION {FlagsWritten(il.ops[i]) : i \in 1..Len(il.ops)}

\* the value expression of an appended operation: the value written when the
\* operation is a register write, the operation itself otherwise
ValueOf(op) == IF op[1] = "LLIL_SET_REG" THEN op[4] ELSE op

LogicalOperation ==
    [i \in {"and", "andi", "or", "ori", "xor", "xori", "not"} |->
        IF i \in {"and", "andi"} THEN "LLIL_AND"
        ELSE IF i \in {"or", "ori"} THEN "LLIL_OR"
        ELSE IF i \in {"xor", "xori"} THEN "LLIL_XOR"
        ELSE "LLIL_NOT"]

\* C11: lifting and, andi, or, ori, xor, xori or not appends exactly two
\* operations: the logical operation, tagged with the flag-write type that
\* defines exactly zero, overflow and sign, written to the destination
\* register unless that is r0 (then appended bare); then a write of the
\* constant 0 to the overflow flag.  Carry and saturation are not written.
C11_LogicalFlags ==
    (Lifted /\ Decoded /\ Record.instr \in DOMAIN LogicalOperation) =>
        /\ ret.exc = "none"
        /\ Len(il.ops) = 2
        /\ IF Val(Record.dst) = 0 THEN il.ops[1][1] # "LLIL_SET_REG"
           ELSE WritesRegister(il.ops[1], RegisterName(Val(Record.dst)))
        /\ ValueOf(il.ops[1])[1] = LogicalOperation[Record.instr]
        /\ Tag(ValueOf(il.ops[1])) \in {flag_write_types[k] : k \in 2..Len(flag_write_types)}
        /\ flags_written_by_flag_write_type[Tag(ValueOf(il.ops[1]))] = {"z", "ov", "s"}
        /\ FlagsWritten(il.ops[1]) = {"z", "ov", "s"}
        /\ il.ops[2][1] = "LLIL_SET_FLAG"
        /\ il.ops[2][2] = "ov"
        /\ il.ops[2][3][1] = "LLIL_CONST"
        /\ Val(il.ops[2][3][3]) = 0
        /\ FlagsOfLift \cap {"cy", "sat"} = {}
        /\ FlagsOfLift \subseteq flags

\* an andi or a not whose destination is r0 was lifted
C11_Witness ==
    /\ Lifted
    /\ Decoded
    /\ Record.instr \in {"andi", "not"}
    /\ Val(Record.dst) = 0
    /\ Len(il.ops) = 2
    /\ il.ops[1][1] \in {"LLIL_AND", "LLIL_NOT"}
    /\ il.ops[2] = il_set_flag("ov", il_const(0, PyInt(0)))

ArithmeticOperation ==
    [i \in {"add", "addi", "sub", "subr", "cmp"} |->
        IF i \in {"add", "addi"} THEN "LLIL_ADD" ELSE "LLIL_SUB"]

MoveMnemonics == {"mov", "movea", "movhi"} \cup LoadInstructions \cup StoreInstructions

\* C12: lifting add, addi, sub, subr or cmp appends exactly one operation, an
\* addition or subtraction tagged with the flag-write type that defines
\* exactly carry, zero, overflow and sign (for cmp the bare subtraction);
\* lifting mov, movea, movhi, a load or a store appends no operation with a
\* flag tag and no flag write; no lift writes the saturation flag, and no
\* flag-write type defines it.
C12_ArithmeticMoveFlags ==
    Lifted =>
        /\ FlagsOfLift \subseteq flags \ {"sat"}
        /\ \A k \in 2..Len(flag_write_types) :
              "sat" \notin flags_written_by_flag_write_type[flag_write_types[k]]
        /\ (Decoded /\ Record.instr \in DOMAIN ArithmeticOperation) =>
              /\ ret.exc = "none"
              /\ Len(il.ops) = 1
              /\ ValueOf(il.ops[1])[1] = ArithmeticOperation[Record.instr]
              /\ Record.instr = "cmp" => il.ops[1][1] = "LLIL_SUB"
              /\ Tag(ValueOf(il.ops[1])) = "*"
              /\ Tags(il.ops[1]) \ {""} = {"*"}
              /\ flags_written_by_flag_write_type["*"] = {"cy", "z", "ov", "s"}
              /\ FlagsOfLift = {"cy", "z", "ov", "s"}
        /\ (Decoded /\ Record.instr \in MoveMnemonics) =>
              /\ ret.exc = "none"
              /\ Len(il.ops) = 1
              /\ Tags(il.ops[1]) = {""}
              /\ il.ops[1][1] # "LLIL_SET_FLAG"
              /\ FlagsOfLift = {}

\* a cmp with an immediate was lifted to a bare tagged subtraction
C12_Witness ==
    /\ Lifted
    /\ Decoded
    /\ Record.instr = "cmp"
    /\ Record.immed # None
    /\ Len(il.ops) = 1
    /\ il.ops[1][1] = "LLIL_SUB"
    /\ il.ops[1][5] = "*"

\* the operation writes the high 32 bits of a 64-bit product to reg
WritesHighWord(op, reg) ==
    /\ WritesRegister(op, reg)
    /\ op[4][1] = "LLIL_LSR"
    /\ op[4][3][1] \in {"LLIL_MULS_DP", "LLIL_MULU_DP"}
    /\ op[4][4][1] = "LLIL_CONST"
    /\ Val(op[4][4][3]) = 32

\* the operation writes the 64-bit product itself (its low 32 bits) to reg
WritesLowWord(op, reg) ==
    /\ WritesRegister(op, reg)
    /\ op[4][1] \in {"LLIL_MULS_DP", "LLIL_MULU_DP"}

\* C13: for every mul/mulu record whose destinations are not r0: when the
\* high-result register (reg3) and the low-result register (dst) are the
\* same register the lifter appends exactly one register write, of the high
\* 32 bits of the product; when they differ it appends exactly two, the high
\* 32 bits to reg3 and then the low 32 bits to dst.
C13_MultiplyCoincidence ==
    (Lifted /\ Decoded /\ Record.instr \in {"mul", "mulu"}
        /\ Record.dst # PyInt(0) /\ Record.reg3 # PyInt(0)) =>
        /\ ret.exc = "none"
        /\ Record.reg3 # None
        /\ Record.dst # None
        /\ WritesHighWord(il.ops[1], RegisterName(Val(Record.reg3)))
        /\ IF Record.reg3 = Record.dst
           THEN Len(il.ops) = 1
           ELSE /\ Len(il.ops) = 2
                /\ WritesLowWord(il.ops[2], RegisterName(Val(Record.dst)))

(***************************************************************************)
(* Decoding of single words                                                *)
(***************************************************************************)
ThirdWord == unpack_H(data, 4)

\* the register fields of the first word: bits 0 to 4 and bits 11 to 15
Reg1 == FirstWord % 32

Reg2 == FirstWord \div 2048

\* the window begins with the bytes 23 06 and is read at address 0x2000
IsExample == Len(data) >= 2 /\ data[1] = \h23 /\ data[2] = \h06 /\ addr = ExampleAddr

\* C14 as stated: a window beginning with bytes 23 06 at address 0x2000
\* decodes to a record of length 2 that writes a destination register, its
\* register indices being bits 0-4 and bits 11-15 of the first word.
C14_ExampleShortForm ==
    (call = "decode_instruction" /\ IsExample) =>
        /\ ret.exc = "none"
        /\ ret.instr # NoInstr
        /\ ret.length = PyInt(2)
        /\ ret.dst \in {PyInt(3), PyInt(0)}
        /\ ret.src \in {None, PyInt(3), PyInt(0)}

\* C14: a window of at least 6 bytes beginning with bytes 23 06, at address
\* 0x2000, decodes to the mov of length 6: bits 11-15 of the first word are
\* zero, which selects the long form; the destination register is bits 0-4
\* (3, sp); there is no source register; the immediate is the 32-bit value of
\* the third word (high half) and the second word (low half).  On a window
\* of fewer than 6 bytes decode_instruction raises.
C14_ExampleLongMove ==
    (call = "decode_instruction" /\ IsExample) =>
        IF Len(data) >= 6
        THEN ret = Tuple8("mov", PyInt(6), None, PyInt(3), None, None,
                          <<data[5] + 256 * data[6], data[3] + 256 * data[4]>>, None)
        ELSE ret.exc \in {"struct.error", "TypeError"}

\* the example was decoded from a window whose second and third word are set
C14_Witness ==
    /\ call = "decode_instruction"
    /\ IsExample
    /\ Len(data) = 6
    /\ data[3] # 0
    /\ data[6] # 0
    /\ ret.exc = "none"
    /\ ret.instr = "mov"
    /\ ret.length = PyInt(6)

ExactShort ==
    (\h0000 :> "nop") @@ (\h001d :> "synce") @@ (\h001e :> "syncm") @@
    (\h001f :> "syncp") @@ (\h0040 :> "rie")

ExactLong ==
    (<<\h07e0, \h0120>> :> "halt") @@ (<<\h07e0, \h0140>> :> "reti") @@
    (<<\h07e0, \h0144>> :> "ctret") @@ (<<\h07e0, \h0148>> :> "eiret") @@
    (<<\h07e0, \h014a>> :> "feret") @@ (<<\h07e0, \h0160>> :> "di") @@
    (<<\h87e0, \h0160>> :> "ei")

\* C15: a first word equal to 0x0000, 0x001d, 0x001e, 0x001f or 0x0040
\* decodes to nop, synce, syncm, syncp or rie with length 2 and every operand
\* slot absent; a first and second word equal to one of the seven exact
\* 32-bit patterns decode to halt, reti, ctret, eiret, feret, di or ei with
\* length 4 and every operand slot absent; lifting a window that begins with
\* bytes 00 00 appends exactly one no-op operation.
C15_ExactPatterns ==
    /\ (call = "decode_instruction" /\ Len(data) >= 2 /\ FirstWord \in DOMAIN ExactShort) =>
          ret = Tuple8(ExactShort[FirstWord], PyInt(2), None, None, None, None, None, None)
    /\ (call = "decode_instruction" /\ Len(data) >= 4
            /\ <<FirstWord, SecondWord>> \in DOMAIN ExactLong) =>
          ret = Tuple8(ExactLong[<<FirstWord, SecondWord>>], PyInt(4), None, None, None,
                       None, None, None)
    /\ (Lifted /\ Len(data) >= 2 /\ FirstWord = 0) =>
          /\ ret = [exc |-> "none", ret |-> PyInt(2)]
          /\ il.ops = <<il_nop>>
          /\ il.marks = <<>>

\* ei was decoded from its exact pattern, whose opcode and subop fields are
\* those of syscall
C15_Witness ==
    /\ call = "decode_instruction"
    /\ Len(data) >= 4
    /\ FirstWord = \h87e0
    /\ SecondWord = \h0160
    /\ ret.instr = "ei"

(***************************************************************************)
(* History                                                                 *)
(***************************************************************************)
\* what decode_instruction returns on the window when it is the first call
\* made after the module is imported
FirstCall(d, a) == decode(ExtendedInstructionsInit, d, a)

\* C16: after any sequence of earlier calls, on any windows, a call of
\* decode_instruction on a window returns the record it returns as the first
\* call ever made, whatever the address argument: what earlier calls have
\* stored in the extended tables changes no record.
C16_HistoryIndependent ==
    /\ \A a \in Addrs : decode_instruction(data, a) = FirstCall(data, addr)
    /\ call = "decode_instruction" => ret = FirstCall(data, addr)

\* a window with an unassigned combination of the extended class is decoded
\* again after calls on it and on another such window have stored their
\* default entries
C16_Witness ==
    /\ call = "decode_instruction"
    /\ Len(data) >= 4
    /\ Opcode = \h3f
    /\ SecondWord = Word2(5, \h01, 8)
    /\ 8 \in DOMAIN ExtendedInstructions[\h01]
    /\ 0 \in DOMAIN ExtendedInstructions[\h18]
    /\ ret = error_value

(***************************************************************************)
(* Control transfers                                                       *)
(***************************************************************************)
\* the immediate of the decoded record as a signed 32-bit value
SignedImmediate ==
    <<((Record.immed[1] + 32768) % 65536) - 32768, Record.immed[2]>>

\* instruction address + sign_extend(immediate, 32)
RelativeTarget == PyAdd(addr, SignedImmediate)

PCRelative == ConditionalBranches \cup {"br", "jr", "jarl"}

\* the addresses the appended operations transfer control to: the constant
\* a jump or a call goes to, and the address whose label is the true label
\* of an if
LiftTargets ==
    {il.ops[i][2][3] : i \in {j \in 1..Len(il.ops) :
        /\ il.ops[j][1] \in {"LLIL_JUMP", "LLIL_CALL"}
        /\ il.ops[j][2][1] \in {"LLIL_CONST", "LLIL_CONST_PTR"}}}
    \cup {il.ops[i][3][2] : i \in {j \in 1..Len(il.ops) :
            il.ops[j][1] = "LLIL_IF" /\ il.ops[j][3][1] = "addr"}}

\* the operations transfer control somewhere the lift does not name: a jump
\* or call through a register or a computed address
IndirectTransfer ==
    \E i \in 1..Len(il.ops) :
        /\ il.ops[i][1] \in {"LLIL_JUMP", "LLIL_CALL", "LLIL_RET"}
        /\ il.ops[i][2][1] \notin {"LLIL_CONST", "LLIL_CONST_PTR"}

\* the edges of the classifier's result that carry a target
DirectEdges ==
    {ret.ret.branches[i] : i \in {j \in 1..Len(ret.ret.branches) :
        ret.ret.branches[j][1] \in {"TrueBranch", "UnconditionalBranch",
                                    "CallDestination"}}}

\* C17: for every record with a PC-relative control transfer (the condition
\* coded branches, br, jr and jarl in their 4- and 6-byte forms) the target
\* the classifier reports and the target a lift that returns jumps to or
\* calls are both instruction address + sign_extend(immediate, 32); a jarl
\* is classified as a call to that target, with no other edge, and lifted to
\* a call of that address.
C17_TargetAgreement ==
    (Decoded /\ Record.instr \in PCRelative) =>
        /\ Classified =>
              /\ ret.exc = "none"
              /\ {e[2] : e \in DirectEdges} = {RelativeTarget}
              /\ \A i \in 1..Len(ret.ret.branches) :
                    ret.ret.branches[i][1] # "IndirectBranch"
              /\ Record.instr = "jarl" =>
                    ret.ret.branches = << <<"CallDestination", RelativeTarget>> >>
        /\ (Lifted /\ ret.exc = "none") =>
              /\ LiftTargets = {RelativeTarget}
              /\ ~IndirectTransfer
              /\ Record.instr = "jarl" =>
                    il.ops = <<il_call(il_const_pointer(4, RelativeTarget))>>

\* a 6-byte jarl whose displacement has bit 31 set was lifted
C17_Witness ==
    /\ Lifted
    /\ Decoded
    /\ Record.instr = "jarl"
    /\ Record.length = PyInt(6)
    /\ Record.immed[1] < 0
    /\ Len(il.ops) = 1

\* the labels created by the last lift
CreatedLabels == {<<"label", k>> : k \in 1..il.nlabels}

\* the labels the framework holds for the addresses it knows
AddressLabels == {<<"addr", a>> : a \in il.known}

\* how often a label is marked
MarkCount(label) == Cardinality({i \in 1..Len(il.marks) : il.marks[i][1] = label})

\* C18: a lift of a condition-coded branch other than br that returns has
\* appended exactly one if-operation, with a true and a false label.  The
\* false label was created in that call and is marked exactly once, as the
\* last step, after every appended operation.  When the target address has
\* no label, the true label was created in that call, is marked directly
\* after the if, and exactly one jump to the target follows it.  When the
\* target has a label, that label is the true label, no jump is appended and
\* the label is not marked.  Every label used is one created in that call or
\* the framework's label of the target.
C18_ConditionalStructure ==
    (Lifted /\ ret.exc = "none" /\ Decoded /\ Record.instr \in ConditionalBranches) =>
        LET t == il.ops[1][3]
            f == il.ops[1][4]
        IN  /\ Len(il.ops) >= 1
            /\ il.ops[1][1] = "LLIL_IF"
            /\ il.ops[1][2][1] = "LLIL_FLAG_COND"
            /\ \A i \in 2..Len(il.ops) : il.ops[i][1] # "LLIL_IF"
            /\ f \in CreatedLabels
            /\ f # t
            /\ MarkCount(f) = 1
            /\ il.marks[Len(il.marks)] = <<f, Len(il.ops)>>
            /\ \A i \in 1..Len(il.marks) :
                  il.marks[i][1] \in CreatedLabels
            /\ {t, f} \subseteq CreatedLabels \cup AddressLabels
            /\ IF RelativeTarget \in il.known
               THEN /\ t = <<"addr", RelativeTarget>>
                    /\ Len(il.ops) = 1
                    /\ MarkCount(t) = 0
                    /\ il.nlabels = 1
               ELSE /\ t \in CreatedLabels
                    /\ il.ops = <<il.ops[1], il_jump(il_const(4, RelativeTarget))>>
                    /\ il.marks = << <<t, 1>>, <<f, 2>> >>
                    /\ il.nlabels = 2

\* a conditional branch was lifted into an IL function that holds a label
\* for its target
C18_Witness ==
    /\ Lifted
    /\ ret.exc = "none"
    /\ Decoded
    /\ Record.instr = "bne"
    /\ RelativeTarget \in il.known
    /\ Len(il.ops) = 1
    /\ Len(il.marks) = 1

\* the opcodes of the register-register class: 0x00 to 0x0f without 0x03,
\* which is an opcode of the immediate class
RegisterRegisterOpcodes == (0..15) \ {3}

TwoOperandMnemonic ==
    (0 :> "mov") @@ (1 :> "not") @@ (2 :> "divh") @@ (4 :> "satsubr") @@
    (5 :> "satsub") @@ (6 :> "satadd") @@ (7 :> "mulh") @@ (8 :> "or") @@
    (9 :> "xor") @@ (10 :> "and") @@ (11 :> "tst") @@ (12 :> "subr") @@
    (13 :> "sub") @@ (14 :> "add") @@ (15 :> "cmp")

OneOperandMnemonic == (4 :> "zxb") @@ (5 :> "sxb") @@ (6 :> "zxh") @@ (7 :> "sxh")

\* a record of length 2 with the source and destination slots given
Short(instr, src, dst) == Tuple8(instr, PyInt(2), src, dst, None, None, None, None)

\* C19: for a first word with an opcode of the register-register class that
\* is not an exact zero-register pattern: opcodes 0x04, 0x05, 0x06 and 0x07
\* with reg2 = 0 decode to zxb, sxb, zxh and sxh with reg1 as the single
\* operand; opcode 0x02 decodes to switch on reg1 when reg2 = 0, otherwise to
\* fetrap with vector reg2 & 0xf when reg1 = 0, otherwise to divh; every
\* other combination decodes to the two-operand mnemonic with source reg1
\* and destination reg2; the length is always 2.
C19_RegisterRegisterAliasing ==
    (call = "decode_instruction" /\ Len(data) >= 2
        /\ Opcode \in RegisterRegisterOpcodes /\ FirstWord \notin DOMAIN ExactShort) =>
        ret = IF Opcode \in DOMAIN OneOperandMnemonic /\ Reg2 = 0
              THEN Short(OneOperandMnemonic[Opcode], None, PyInt(Reg1))
              ELSE IF Opcode = 2 /\ Reg2 = 0 THEN Short("switch", None, PyInt(Reg1))
              ELSE IF Opcode = 2 /\ Reg1 = 0 THEN Short("fetrap", None, PyInt(Reg2 % 16))
              ELSE Short(TwoOperandMnemonic[Opcode], PyInt(Reg1), PyInt(Reg2))

\* a fetrap was decoded whose vector is the low four bits of a reg2 above 15
C19_Witness ==
    /\ call = "decode_instruction"
    /\ Len(data) >= 2
    /\ Opcode = 2
    /\ Reg1 = 0
    /\ Reg2 = 17
    /\ ret.instr = "fetrap"
    /\ ret.dst = PyInt(1)

\* C20: for a first word with opcode field 0x17 in a window of at least 6
\* bytes: both register fields zero decode to jr of length 6; only reg2 zero
\* decodes to jarl of length 6 with link register reg1; every other case
\* decodes to mulh of length 2 with destination reg2 and the reg1 field,
\* sign-extended from 5 bits, as immediate.  The displacement of jr and jarl
\* is the 32-bit value of the third word (high half) and the second word
\* (low half): jr holds it unsigned, jarl sign-extended.
C20_Opcode17Overlap ==
    (call = "decode_instruction" /\ Len(data) >= 6 /\ Opcode = \h17) =>
        ret = IF Reg1 = 0 /\ Reg2 = 0
              THEN Tuple8("jr", PyInt(6), None, None, None, None,
                          <<ThirdWord, SecondWord>>, None)
              ELSE IF Reg2 = 0
              THEN Tuple8("jarl", PyInt(6), None, PyInt(Reg1), None, None,
                          <<IF ThirdWord >= 32768 THEN ThirdWord - 65536 ELSE ThirdWord,
                            SecondWord>>, None)
              ELSE Tuple8("mulh", PyInt(2), None, PyInt(Reg2), None, None,
                          PyInt(IF Reg1 >= 16 THEN Reg1 - 32 ELSE Reg1), None)

\* a jarl of length 6 was decoded from a 6-byte window whose second and
\* third word differ
C20_Witness ==
    /\ call = "decode_instruction"
    /\ Len(data) = 6
    /\ Opcode = \h17
    /\ Reg2 = 0
    /\ Reg1 = 31
    /\ SecondWord # ThirdWord
    /\ ThirdWord >= 32768
    /\ ret.instr = "jarl"
    /\ ret.length = PyInt(6)
    /\ ret.dst = PyInt(31)

(***************************************************************************)
(* Short branches                                                          *)
(***************************************************************************)
\* the 16 condition names, by condition code
ConditionNames ==
    << "bv", "bl", "be", "bnh", "bn", "br", "blt", "ble",
       "bnv", "bnl", "bne", "bh", "bp", "bsa", "bge", "bgt" >>

\* the 8-bit field of bits 11-15 (high) and bits 4-6 (low), as a signed value
SignedField ==
    LET field == Reg2 * 8 + ((FirstWord \div 16) % 8)
    IN  IF field >= 128 THEN field - 256 ELSE field

\* C21: for every first word with opcode field 0x2c to 0x2f the record has
\* length 2, its mnemonic is the entry of the condition table selected by
\* the low 4 bits of the word, every register slot is absent, and its
\* displacement is twice the signed value of the 8-bit field of bits 11-15
\* (high) and bits 4-6 (low): even and in [-256, 254].
C21_BranchDecoding ==
    (call = "decode_instruction" /\ IsBranchWindow) =>
        /\ ret = Tuple8(ConditionNames[(FirstWord % 16) + 1], PyInt(2), None, None, None,
                        None, PyInt(2 * SignedField), None)
        /\ Val(ret.immed) % 2 = 0
        /\ Val(ret.immed) >= -256
        /\ Val(ret.immed) <= 254

\* the branch with the most negative displacement was decoded
C21_Witness ==
    /\ call = "decode_instruction"
    /\ IsBranchWindow
    /\ Reg2 = 16
    /\ (FirstWord \div 16) % 8 = 0
    /\ ret.instr = "bgt"
    /\ ret.immed = PyInt(-256)

(***************************************************************************)
(* The 32-bit two-word class                                               *)
(***************************************************************************)
TwoWordOpcodes == \h30..\h3b

\* the mnemonics of the nominal 4-byte form of an opcode
NominalMnemonics(op) ==
    CASE op = \h30 -> {"addi"}
      [] op = \h31 -> {"movea"}
      [] op = \h32 -> {"movhi"}
      [] op = \h33 -> {"satsubi"}
      [] op = \h34 -> {"ori"}
      [] op = \h35 -> {"xori"}
      [] op = \h36 -> {"andi"}
      [] op = \h37 -> {"mulhi"}
      [] op = \h38 -> {"ld.b"}
      [] op = \h39 -> {"ld.h", "ld.w"}
      [] op = \h3a -> {"st.b"}
      [] op = \h3b -> {"st.h", "st.w"}

\* the record is the nominal 4-byte form of its opcode: an immediate
\* operation or a load from reg1 to reg2, or a store of reg2 at reg1
IsNominal(r, op) ==
    /\ r.exc = "none"
    /\ r.instr \in NominalMnemonics(op)
    /\ r.length = PyInt(4)
    /\ r.reg3 = None
    /\ r.immed # None
    /\ IF op \in {\h3a, \h3b}
       THEN r.src = PyInt(Reg2) /\ r.dst = PyInt(Reg1)
       ELSE r.src = PyInt(Reg1) /\ r.dst = PyInt(Reg2)

\* the record is the 6-byte form with the 32-bit immediate of the third
\* (high) and second (low) word, on register reg1
IsLongForm(r, name) ==
    r = Tuple8(name, PyInt(6), None, PyInt(Reg1), None, None,
               <<ThirdWord, SecondWord>>, None)

\* the window with the opcode field replaced and bits 11-15 cleared
Rerouted(op) ==
    LET w == Word1(0, op, Reg1)
    IN  [i \in 1..Len(data) |-> IF i = 1 THEN w % 256
                                ELSE IF i = 2 THEN w \div 256 ELSE data[i]]

\* the opcodes whose reg2 = 0 form decodes to one of the given mnemonics
ReroutesTo(names) ==
    {op \in TwoWordOpcodes : decode_instruction(Rerouted(op), addr).instr \in names}

\* every opcode/reg2 combination outside the sets decodes to its nominal form
NominalOutside(frame, jump) ==
    (~(Reg2 = 0 /\ Opcode \in frame \cup jump)) => IsNominal(ret, Opcode)

InTwoWordClass ==
    call = "decode_instruction" /\ Len(data) >= 6 /\ Opcode \in TwoWordOpcodes

\* C22 (as stated): in the two-word class exactly three opcode values
\* reroute to a prepare/dispose record when reg2 = 0, exactly one reroutes
\* to a 6-byte jump, and every other opcode/reg2 combination decodes to
\* its nominal 4-byte form.
C22_ThreeFrameReroutes ==
    InTwoWordClass =>
        /\ Cardinality(ReroutesTo({"prepare", "dispose"})) = 3
        /\ Cardinality(ReroutesTo({"jmp"})) = 1
        /\ NominalOutside(ReroutesTo({"prepare", "dispose"}), ReroutesTo({"jmp"}))

\* C22 (amended): with reg2 = 0, two opcode values (0x32, 0x33) reroute
\* to a dispose record of length 4 and none to prepare, one (0x31) reroutes
\* to the 6-byte mov of a 32-bit immediate, one (0x37) to the 6-byte jmp;
\* every other opcode/reg2 combination decodes to its nominal 4-byte form.
\* On a window of 4 or 5 bytes the two 6-byte forms raise TypeError.
C22_TwoWordReroutes ==
    (call = "decode_instruction" /\ Len(data) >= 4 /\ Opcode \in TwoWordOpcodes) =>
        /\ ReroutesTo({"dispose"}) = {\h32, \h33}
        /\ ReroutesTo({"prepare"}) = {}
        /\ Len(data) >= 6 => ReroutesTo({"mov"}) = {\h31} /\ ReroutesTo({"jmp"}) = {\h37}
        /\ CASE Reg2 = 0 /\ Opcode \in {\h32, \h33} ->
                    /\ ret.exc = "none"
                    /\ ret.instr = "dispose"
                    /\ ret.length = PyInt(4)
             [] Reg2 = 0 /\ Opcode \in {\h31, \h37} ->
                    IF Len(data) >= 6
                    THEN IsLongForm(ret, IF Opcode = \h31 THEN "mov" ELSE "jmp")
                    ELSE ret.exc = "TypeError"
             [] OTHER -> IsNominal(ret, Opcode)

\* the long move was decoded where movea is the nominal form
C22_Witness ==
    /\ InTwoWordClass
    /\ Opcode = \h31
    /\ Reg2 = 0
    /\ Reg1 = 17
    /\ ret.instr = "mov"
    /\ ret.length = PyInt(6)
    /\ ret.immed = <<\hffff, \hfffe>>

(***************************************************************************)
(* Classifier and lifter on dispose                                        *)
(***************************************************************************)
\* the classifier reported a function-return edge
ReportsReturn ==
    \E i \in 1..Len(ret.ret.branches) : ret.ret.branches[i][1] = "FunctionReturn"

\* the lifter appended a return operation
EmitsReturn == \E i \in 1..Len(il.ops) : il.ops[i][1] = "LLIL_RET"

\* the record carries a link register: the 5-bit field of the second word
HasLinkRegister == SecondWord % 32 # 0

\* C25: for every dispose record, get_instruction_info reports a
\* function-return edge exactly when the record carries a link register,
\* which is exactly when the lifter emits a return operation; a dispose
\* without a link register yields no branch edge.
C25_DisposeAgreement ==
    (Decoded /\ Record.instr = "dispose") =>
        /\ Record.src # None <=> HasLinkRegister
        /\ Lifted => (EmitsReturn <=> HasLinkRegister)
        /\ Classified =>
              /\ ReportsReturn <=> HasLinkRegister
              /\ ~HasLinkRegister => ret.ret.branches = <<>>

(***************************************************************************)
(* Executing an IL sequence.  A value is 64 bits, bit i at index i.  An    *)
(* expression of size s yields the low 8 * s bits of its result; the       *)
(* operations of a sequence run in the order they were appended, each on   *)
(* the registers and flags the one before left.  The flags a tagged        *)
(* operation writes by itself are not followed: the sequences executed     *)
(* below write cy and ov explicitly after it.                              *)
(*   regs   register name -> value                                         *)
(*   flags  flag name -> 0 or 1                                            *)
(*   mem    address -> the halfword stored there                           *)
(***************************************************************************)
Bits == 0..63

Zero64 == [i \in Bits |-> 0]

\* the low n bits
Trunc(v, n) == [i \in Bits |-> IF i < n THEN v[i] ELSE 0]

\* the low n bits, bit n - 1 repeated above them
SignExt(v, n) == [i \in Bits |-> IF i < n THEN v[i] ELSE v[n - 1]]

\* the two's complement bits of a Python integer
OfPy(p) ==
    [i \in Bits |-> IF i < 16 THEN (p[2] \div (2 ^ i)) % 2
                    ELSE IF i < 46 THEN (p[1] \div (2 ^ (i - 16))) % 2
                    ELSE IF p[1] < 0 THEN 1 ELSE 0]

\* the number held in n bits from bit from on
RECURSIVE Field(_, _, _)
Field(v, from, n) == IF n = 0 THEN 0 ELSE v[from] + 2 * Field(v, from + 1, n - 1)

\* the low 32 bits as a Python integer
ToPy(v) == <<Field(v, 16, 16), Field(v, 0, 16)>>

\* a shift count: 64 stands for every count that clears the value
ToShift(v) ==
    IF \E i \in 6..63 : v[i] = 1 THEN 64 ELSE Field(v, 0, 6)

Lsl(v, n) == [i \in Bits |-> IF i >= n THEN v[i - n] ELSE 0]

Lsr(v, n) == [i \in Bits |-> IF i + n <= 63 THEN v[i + n] ELSE 0]

\* the arithmetic shift of a value of the given number of bits
Asr(v, n, bits) ==
    [i \in Bits |-> IF i >= bits THEN 0
                    ELSE IF i + n < bits THEN v[i + n] ELSE v[bits - 1]]

\* base-256 digits, least significant first
Digits(v) == [k \in 0..7 |-> Field(v, 8 * k, 8)]

FromDigits(d) == [i \in Bits |-> (d[(i \div 8) + 1] \div (2 ^ (i % 8))) % 2]

RECURSIVE AddDigits(_, _, _, _)
AddDigits(a, b, k, carry) ==
    IF k = 8 THEN <<>>
    ELSE <<(a[k] + b[k] + carry) % 256>>
         \o AddDigits(a, b, k + 1, (a[k] + b[k] + carry) \div 256)

\* a + b + carry modulo 2^64
AddCarry(a, b, carry) == FromDigits(AddDigits(Digits(a), Digits(b), 0, carry))

Complement(v) == [i \in Bits |-> 1 - v[i]]

RECURSIVE Column(_, _, _, _)
Column(a, b, k, i) == IF i > k THEN 0 ELSE a[i] * b[k - i] + Column(a, b, k, i + 1)

RECURSIVE MulDigits(_, _, _, _)
MulDigits(a, b, k, carry) ==
    IF k = 8 THEN <<>>
    ELSE <<(Column(a, b, k, 0) + carry) % 256>>
         \o MulDigits(a, b, k + 1, (Column(a, b, k, 0) + carry) \div 256)

\* a * b modulo 2^64
Mul(a, b) == FromDigits(MulDigits(Digits(a), Digits(b), 0, 0))

\* the bits an expression of the given size yields
BitsOf(size) == IF size = 0 THEN 64 ELSE 8 * size

\* the halfword at an address; 0 where nothing is stored
Load(mem, address) ==
    IF ToPy(address) \in DOMAIN mem THEN OfPy(<<0, mem[ToPy(address)]>>) ELSE Zero64

RECURSIVE Eval(_, _)
Eval(e, env) ==
    CASE e[1] \in {"LLIL_CONST", "LLIL_CONST_PTR"} -> Trunc(OfPy(e[3]), BitsOf(e[2]))
      [] e[1] = "LLIL_REG" -> Trunc(env.regs[e[3]], BitsOf(e[2]))
      [] e[1] = "LLIL_ADD" ->
            Trunc(AddCarry(Eval(e[3], env), Eval(e[4], env), 0), BitsOf(e[2]))
      [] e[1] = "LLIL_SUB" ->
            Trunc(AddCarry(Eval(e[3], env), Complement(Eval(e[4], env)), 1), BitsOf(e[2]))
      [] e[1] = "LLIL_AND" ->
            Trunc([i \in Bits |-> Eval(e[3], env)[i] * Eval(e[4], env)[i]], BitsOf(e[2]))
      [] e[1] = "LLIL_LSL" ->
            Trunc(Lsl(Eval(e[3], env), ToShift(Eval(e[4], env))), BitsOf(e[2]))
      [] e[1] = "LLIL_LSR" ->
            Trunc(Lsr(Eval(e[3], env), ToShift(Eval(e[4], env))), BitsOf(e[2]))
      [] e[1] = "LLIL_ASR" ->
            Asr(Eval(e[3], env), ToShift(Eval(e[4], env)), BitsOf(e[2]))
      [] e[1] = "LLIL_MULS_DP" ->
            Trunc(Mul(SignExt(Eval(e[3], env), BitsOf(e[2]) \div 2),
                      SignExt(Eval(e[4], env), BitsOf(e[2]) \div 2)), BitsOf(e[2]))
      [] e[1] = "LLIL_MULU_DP" ->
            Trunc(Mul(Trunc(Eval(e[3], env), BitsOf(e[2]) \div 2),
                      Trunc(Eval(e[4], env), BitsOf(e[2]) \div 2)), BitsOf(e[2]))
      [] e[1] = "LLIL_SX" ->
            Trunc(SignExt(Eval(e[3], env), BitsOf(e[3][2])), BitsOf(e[2]))
      [] e[1] = "LLIL_LOAD" -> Trunc(Load(env.mem, Eval(e[3], env)), BitsOf(e[2]))

\* one operation of a sequence
Step(env, e) ==
    CASE e[1] = "LLIL_SET_REG" ->
            [env EXCEPT !.regs[e[3]] = Trunc(Eval(e[4], env), BitsOf(e[2]))]
      [] e[1] = "LLIL_SET_FLAG" ->
            [env EXCEPT !.flags[e[2]] = IF Eval(e[3], env) = Zero64 THEN 0 ELSE 1]
      [] OTHER -> env

RECURSIVE Exec(_, _, _)
Exec(ops, i, env) == IF i > Len(ops) THEN env ELSE Exec(ops, i + 1, Step(env, ops[i]))

\* every register holding 0 but the given ones, the flags unknown (2)
RegisterState(given) ==
    [regs |-> [n \in Range(Registers) |-> IF n \in DOMAIN given THEN given[n] ELSE Zero64],
     flags |-> [f \in flags |-> 2],
     mem |-> << >>]

(***************************************************************************)
(* Shifts, executed                                                        *)
(***************************************************************************)
\* 32-bit values with the bits next to both ends set and clear
SampleValues ==
    {Trunc(OfPy(p), 32) : p \in { <<\h0000, \h0001>>, <<\h0000, \h0003>>, <<\h8000, \h0000>>,
                                  <<\h4000, \h0002>>, <<\hffff, \hffff>>, <<\h1234, \h5678>> }}

ShiftCounts == {1, 2, 31}

LiftedShift ==
    Lifted /\ Decoded /\ Record.instr \in {"shl", "shr", "sar"} /\ ret.exc = "none"

\* the register the result of a shift record goes to
ShiftDestination(r) == IF r.reg3 = None THEN r.dst ELSE r.reg3

\* the shift counts a record can be executed with: its immediate, or the
\* sampled values of its count register
CountsOf(r) == IF r.immed # None THEN {Val(r.immed)} \cap (1..31) ELSE ShiftCounts

\* the values the shifted register can hold together with count n: any,
\* but n itself where the count register is the shifted register
ValuesWith(r, n) ==
    IF r.immed = None /\ r.src = r.dst THEN {Trunc(OfPy(PyInt(n)), 32)} ELSE SampleValues

\* the registers before a shift of v by n
BeforeShift(r, v, n) ==
    RegisterState(IF r.immed # None THEN RegisterName(Val(r.dst)) :> v
                  ELSE (RegisterName(Val(r.dst)) :> v)
                       @@ (RegisterName(Val(r.src)) :> Trunc(OfPy(PyInt(n)), 32)))

ShiftedValue(instr, v, n) ==
    CASE instr = "shl" -> Trunc(Lsl(v, n), 32)
      [] instr = "shr" -> Lsr(v, n)
      [] instr = "sar" -> Asr(v, n, 32)

\* the last bit shifted out of v
LastBitOut(instr, v, n) == IF instr = "shl" THEN v[32 - n] ELSE v[n - 1]

\* the result, the carry flag and the overflow flag a state holds
ShiftOutcome(r, v, n, after) ==
    /\ after.regs[RegisterName(Val(ShiftDestination(r)))] = ShiftedValue(r.instr, v, n)
    /\ after.flags["cy"] = LastBitOut(r.instr, v, n)
    /\ after.flags["ov"] = 0

\* no register slot of the record names r0
NoRegisterZero(r) == \A x \in {r.src, r.dst, r.reg3} \ {None} : Val(x) # 0

\* C24: for shl, shr and sar with a shift count n in 1..31, immediate or
\* held in a register, applied to a value v held in the shifted register,
\* executing the emitted sequence leaves the shifted result in the
\* destination, the carry flag equal to the last bit shifted out of v and
\* the overflow flag 0, in the two-operand forms and in the forms with a
\* third register.
C24_ShiftCarry ==
    (LiftedShift /\ NoRegisterZero(Record)) =>
        \A n \in CountsOf(Record) : \A v \in ValuesWith(Record, n) :
            ShiftOutcome(Record, v, n, Exec(il.ops, 1, BeforeShift(Record, v, n)))

(***************************************************************************)
(* Multiplies, executed                                                    *)
(***************************************************************************)
\* a mul/mulu record with two destination registers, distinct and not r0
LiftedMultiply ==
    /\ Lifted
    /\ Decoded
    /\ Record.instr \in {"mul", "mulu"}
    /\ ret.exc = "none"
    /\ Record.reg3 # None
    /\ Record.reg3 # Record.dst
    /\ Val(Record.reg3) # 0
    /\ Val(Record.dst) # 0

\* the registers before a multiply of x (destination) by y (source)
BeforeMultiply(r, x, y) ==
    RegisterState(IF r.immed # None \/ Val(r.src) = 0 THEN RegisterName(Val(r.dst)) :> x
                  ELSE (RegisterName(Val(r.dst)) :> x) @@ (RegisterName(Val(r.src)) :> y))

\* the second operand: the immediate, or the source register
SecondOperand(r, before) ==
    IF r.immed # None THEN Trunc(OfPy(r.immed), 32)
    ELSE before.regs[RegisterName(Val(r.src))]

\* the 64-bit product of two 32-bit values
Product(instr, a, b) ==
    IF instr = "mul" THEN Mul(SignExt(a, 32), SignExt(b, 32)) ELSE Mul(a, b)

\* reg3 holds the high and the destination the low 32 bits of the product
MultiplyOutcome(r, product, after) ==
    /\ after.regs[RegisterName(Val(r.reg3))] = Trunc(Lsr(product, 32), 32)
    /\ after.regs[RegisterName(Val(r.dst))] = Trunc(product, 32)

MultiplyCorrect(r, before) ==
    MultiplyOutcome(r,
                    Product(r.instr, before.regs[RegisterName(Val(r.dst))],
                            SecondOperand(r, before)),
                    Exec(il.ops, 1, before))

\* C26: for every mul/mulu record with distinct destination registers
\* other than r0 and every register state, executing the emitted sequence
\* leaves reg3 holding the high and the destination holding the low 32 bits
\* of the signed (mul) or unsigned (mulu) 64-bit product of the operand
\* values before the instruction, also when reg3 is the source register.
C26_MultiplyResult ==
    LiftedMultiply =>
        \A x \in SampleValues : \A y \in SampleValues :
            MultiplyCorrect(Record, BeforeMultiply(Record, x, y))

(***************************************************************************)
(* switch, executed                                                        *)
(***************************************************************************)
LiftedSwitch == Lifted /\ Decoded /\ Record.instr = "switch" /\ ret.exc = "none"

\* the address after the switch instruction: the base of its table
TableBase == Trunc(OfPy(PyAdd(addr, PyInt(2))), 32)

\* base + 2 * v modulo 2^32
Entry(base, v) == Trunc(AddCarry(base, Lsl(v, 1), 0), 32)

\* table halfwords of both signs
SampleHalfwords == {\h0001, \h7fff, \h8000, \hfffe}

\* register r holding x, and halfword h stored at the given address only
BeforeSwitch(reg, x, address, h) ==
    [RegisterState(RegisterName(reg) :> x) EXCEPT !.mem = (ToPy(address) :> h)]

\* C23: lifting switch on register r at address A emits exactly one
\* operation, a jump whose target is B + 2 * sign_extend(the halfword
\* loaded from B + 2 * value(r)) with B = A + 2 both the base of the load
\* and the base added to the doubled entry; and switch is never decoded
\* with r = r0.
C23_SwitchLowering ==
    /\ LiftedSwitch =>
          /\ Len(il.ops) = 1
          /\ il.ops[1][1] = "LLIL_JUMP"
          /\ \A x \in SampleValues : \A h \in SampleHalfwords :
                Eval(il.ops[1][2],
                     BeforeSwitch(Val(Record.dst), x, Entry(TableBase, x), h))
                  = Entry(TableBase, SignExt(OfPy(<<0, h>>), 16))
    /\ (call = "decode_instruction" /\ ret.exc = "none" /\ ret.instr = "switch") =>
          /\ ret.dst = PyInt(Reg1)
          /\ Reg1 # 0
    /\ (call = "decode_instruction" /\ Opcode = \h02 /\ Reg2 = 0 /\ Reg1 = 0) =>
          ret.instr = "rie"

\* switch on r5 was lifted at a non-zero address
C23_Witness ==
    /\ LiftedSwitch
    /\ Record.dst = PyInt(5)
    /\ addr = PyInt(AddrStep)
    /\ Len(il.ops) = 1
    /\ il.ops[1][1] = "LLIL_JUMP"

====
